---- MODULE Spec2Model ----
(***************************************************************************)
(* A model of tfskel's drift analysis engine (package internal/drift):     *)
(* the version drift analyzer (version_analyzer.go) and the plan analyzer  *)
(* (plan_formatter.go, plan models).                                       *)
(*                                                                         *)
(* The package is a library of calls that return fresh values.  The state  *)
(* of the model is the configuration the analyzers were constructed with   *)
(* and the arguments and the result of the call a run makes: a run         *)
(* constructs an analyzer and calls it once; the methods of the result     *)
(* (ExitCode, ...) are functions of the result.                            *)
(*                                                                         *)
(* Go strings that the code takes apart (version constraints) are          *)
(* sequences of one-character strings; strings the code only compares      *)
(* (names, statuses, actions) are TLA+ strings.                            *)
(***************************************************************************)
EXTENDS Integers, Sequences, FiniteSets, TLC

VARIABLES
    cfg,        \* Analyzer.config: the expected baseline
    infos,      \* the versionInfos argument of the last Analyzer.Analyze call
    report,     \* the *DriftReport that call returned
    sevCall,    \* the last direct categorizeDriftSeverity call: record, summary before and after
    cmp,        \* the last comparison call: expected, actual and both comparisons' status
    criticalResourceTypes, \* PlanAnalyzer.criticalResourceTypes
    plan,       \* the plan argument of the last PlanAnalyzer.Analyze call
    analysis,   \* the *PlanAnalysis that call returned
    fsys,   \* the file tree under the Detector's rootPath
    scanned,   \* what Detector.ScanDirectory returned: results and err
    planFile,   \* the file at the name handed to ParsePlanFile
    parsed,   \* what ParsePlanFile returned: plan and err
    rendered,   \* the rows a formatter wrote, or None
    merged,   \* the call and result of MergeCriticalResources, or None
    cmdErr,   \* the error the command's RunE returned, or None
    exitStatus,   \* the exit status of the process, or None
    combined,   \* the CombinedAnalysis of drift all, or None
    invocation,   \* the flags and inputs of the drift all run, or None
    project,   \* the files and directories of the project the generator works in, or None
    generated    \* the last Generator.Run: its number, its configuration and the files before it, or None

vars == <<cfg, infos, report, sevCall, cmp, criticalResourceTypes, plan, analysis, fsys, scanned, planFile, parsed, rendered, merged, cmdErr, exitStatus, combined, invocation, project, generated>>

\* A result variable holds <<>> until the call is made and <<result>> after it.
None == <<>>

(***************************************************************************)
(* Bounds of the model.                                                    *)
(***************************************************************************)
\* Longest version-number part of a generated constraint string.
MaxVerLen == 3
\* Most records in one Analyze call.
MaxFiles == 2
\* Most plugin entries of a record handed to categorizeDriftSeverity directly.
MaxPlugins == 2
\* Most resource changes in one plan.
MaxChanges == 2

SeqsUpTo(S, n) == UNION {[1..k -> S] : k \in 0..n}

(***************************************************************************)
(* Go string primitives used by extractVersionNumbers.                     *)
(***************************************************************************)
Digits == {"0", "1", "2", "3", "4", "5", "6", "7", "8", "9"}

DigitVal(c) ==
    CASE c = "0" -> 0 [] c = "1" -> 1 [] c = "2" -> 2 [] c = "3" -> 3
      [] c = "4" -> 4 [] c = "5" -> 5 [] c = "6" -> 6 [] c = "7" -> 7
      [] c = "8" -> 8 [] c = "9" -> 9

\* The white space of strings.TrimSpace and of the regexp class \s that can
\* occur in the model's alphabet.
SpaceChars == {" ", "\t", "\n", "\r", "\f"}

\* The regexp character class [~>=<!\s].
OperatorChars == {"~", ">", "=", "<", "!"} \cup SpaceChars

RECURSIVE DropLeading(_, _)
DropLeading(s, C) ==
    IF s # <<>> /\ Head(s) \in C THEN DropLeading(Tail(s), C) ELSE s

RECURSIVE DropTrailing(_, _)
DropTrailing(s, C) ==
    IF s # <<>> /\ s[Len(s)] \in C
    THEN DropTrailing(SubSeq(s, 1, Len(s) - 1), C)
    ELSE s

\* strings.TrimSpace
TrimSpace(s) == DropTrailing(DropLeading(s, SpaceChars), SpaceChars)

\* regexp.MustCompile(`^[~>=<!\s]+`).ReplaceAllString(version, "")
StripOperators(s) == DropLeading(s, OperatorChars)

\* strings.Split(s, sep) for a one-character separator: always at least one part.
RECURSIVE Split(_, _)
Split(s, sep) ==
    IF \A i \in 1..Len(s) : s[i] # sep
    THEN <<s>>
    ELSE LET i == CHOOSE k \in 1..Len(s) :
                      s[k] = sep /\ \A j \in 1..(k - 1) : s[j] # sep
         IN <<SubSeq(s, 1, i - 1)>> \o Split(SubSeq(s, i + 1, Len(s)), sep)

RECURSIVE DigitsVal(_)
DigitsVal(s) ==
    IF s = <<>> THEN 0
    ELSE 10 * DigitsVal(SubSeq(s, 1, Len(s) - 1)) + DigitVal(s[Len(s)])

\* strconv.Atoi: an optional sign, then one or more decimal digits; anything
\* else is an error.  (The values of the model are far from the int range.)
Atoi(s) ==
    LET signed == s # <<>> /\ Head(s) \in {"+", "-"}
        body == IF signed THEN Tail(s) ELSE s
    IN IF body = <<>> \/ \E i \in 1..Len(body) : body[i] \notin Digits
       THEN [ok |-> FALSE, val |-> 0]
       ELSE [ok |-> TRUE,
             val |-> IF signed /\ Head(s) = "-" THEN 0 - DigitsVal(body)
                     ELSE DigitsVal(body)]

(***************************************************************************)
(* types.go: DriftStatus                                                   *)
(***************************************************************************)
StatusInSync == "in-sync"
StatusMinorDrift == "minor-drift"
StatusMajorDrift == "major-drift"
StatusMissing == "missing"
StatusNotManaged == "not-managed"

DriftStatuses ==
    {StatusInSync, StatusMinorDrift, StatusMajorDrift, StatusMissing, StatusNotManaged}

(***************************************************************************)
(* version_analyzer.go: the comparison of two constraint strings           *)
(***************************************************************************)
\* extractVersionNumbers: <<major, minor>>, -1 where a part does not parse.
extractVersionNumbers(version) ==
    LET parts == Split(StripOperators(TrimSpace(version)), ".")
        major == IF Atoi(parts[1]).ok THEN Atoi(parts[1]).val ELSE -1
        minor == IF Len(parts) > 1 /\ Atoi(parts[2]).ok
                 THEN Atoi(parts[2]).val ELSE -1
    IN <<major, minor>>

\* Mutant: the check for an unparseable major number is missing.
compareSemverConstraints_NoParseCheck(expected, actual) ==
    LET e == extractVersionNumbers(expected)
        a == extractVersionNumbers(actual)
    IN IF e[1] # a[1] THEN StatusMajorDrift
       ELSE IF e[2] # a[2] THEN StatusMinorDrift
       ELSE IF expected # actual THEN StatusMinorDrift
       ELSE StatusInSync

\* Mutant: the check for a different spelling of the same numbers is missing.
compareSemverConstraints_NoSpellingCheck(expected, actual) ==
    LET e == extractVersionNumbers(expected)
        a == extractVersionNumbers(actual)
    IN IF e[1] = -1 \/ a[1] = -1 THEN StatusMajorDrift
       ELSE IF e[1] # a[1] THEN StatusMajorDrift
       ELSE IF e[2] # a[2] THEN StatusMinorDrift
       ELSE StatusInSync

compareSemverConstraints(expected, actual) ==
    LET e == extractVersionNumbers(expected)
        a == extractVersionNumbers(actual)
    IN IF e[1] = -1 \/ a[1] = -1 THEN StatusMajorDrift
       ELSE IF e[1] # a[1] THEN StatusMajorDrift
       ELSE IF e[2] # a[2] THEN StatusMinorDrift
       ELSE IF expected # actual THEN StatusMinorDrift
       ELSE StatusInSync

\* Mutant: the exact-equality check is missing; equal strings go to the parser.
compareTerraformVersion_NoEquality(expected, actual) ==
    IF actual = <<>> THEN StatusMissing
    ELSE compareSemverConstraints(expected, actual)

compareTerraformVersion(expected, actual) ==
    IF actual = <<>> THEN StatusMissing
    ELSE IF expected = actual THEN StatusInSync
    ELSE compareSemverConstraints(expected, actual)

compareProviderVersion(expected, actual) ==
    IF expected = <<>> THEN StatusNotManaged
    ELSE IF actual = <<>> THEN StatusMissing
    ELSE IF expected = actual THEN StatusInSync
    ELSE compareSemverConstraints(expected, actual)

(***************************************************************************)
(* The constraint strings the comparison is checked on: every string of at *)
(* most MaxVerLen characters over digits, the dot and a letter, and        *)
(* strings with operator prefixes, signs and white space.                  *)
(***************************************************************************)
VersionChars == {"1", "2", ".", "x"}

ExtraConstraints ==
    { <<"~", ">", " ", "1", ".", "2">>,
      <<"~", ">", " ", "1", ".", "1">>,
      <<"~", ">", " ", "2", ".", "2">>,
      <<"~", ">", " ", "1">>,
      <<"~", ">", " ", "1", ".", "x">>,
      <<"~", ">", " ", "x", ".", "1">>,
      <<"~", ">", " ">>,
      <<"=", " ", "1", ".", "2">>,
      <<">", "=", "1", ".", "2">>,
      <<" ", "1", ".", "2", " ">>,
      <<"1", " ", ".", "2">>,
      <<"-", "1", ".", "2">>,
      <<"-", "1", ".", "1">>,
      <<"+", "1", ".", "2">>,
      <<"v", "1", ".", "2">> }

ConstraintStrings == SeqsUpTo(VersionChars, MaxVerLen) \cup ExtraConstraints

(***************************************************************************)
(* The baselines and the extractor records the analyzer is checked on.     *)
(***************************************************************************)
V(major, minor) == <<"~", ">", " ", major, ".", minor>>

\* config.Config: TerraformVersion, and Provider (nil or with AWS nil or set).
\* The first is the configuration of TestAnalyzer_Analyze, the second the
\* empty &config.Config{} of TestAnalyzer_CompareSemverConstraints.
Configs ==
    { [TerraformVersion |-> V("1", "6"),
       Provider |-> <<[AWS |-> <<[Version |-> V("6", "0")]>>]>>],
      [TerraformVersion |-> <<>>, Provider |-> None] }

\* required_version as a file declares it: absent, the baseline, a minor and
\* a major step away from it.
DeclaredTerraformVersions == {<<>>, V("1", "6"), V("1", "5"), V("2", "0")}

ProviderNames == {"aws", "google"}

\* The version a file declares for a plugin; <<>> is a plugin declared with
\* a source and no version.
DeclaredProviderVersions(name) ==
    IF name = "aws" THEN {V("6", "0"), V("6", "1"), V("4", "0"), <<>>}
    ELSE {V("5", "0")}

ProviderVer(name, version) == [Source |-> <<"hashicorp", name>>, Version |-> version]

\* VersionInfo.Providers: no plugin, one plugin, or the managed plugin with
\* an unmanaged one beside it.
ProviderMaps ==
    {<<>>}
    \cup UNION { { [n \in {name} |-> ProviderVer(n, v)] :
                     v \in DeclaredProviderVersions(name) } : name \in ProviderNames }
    \cup { [n \in ProviderNames |->
              ProviderVer(n, IF n = "aws" THEN V("4", "0") ELSE V("5", "0"))] }

\* VersionInfo without its FilePath.  A record with a ParseError is the one
\* ScanDirectory builds on a read error (nothing else set) or the one
\* parseWithHCL returns on diagnostics (whatever was extracted, and the error).
VersionData ==
    { [TerraformVersion |-> t, Providers |-> m, ParseError |-> FALSE] :
        t \in DeclaredTerraformVersions, m \in ProviderMaps }
    \cup { [TerraformVersion |-> <<>>, Providers |-> <<>>, ParseError |-> TRUE],
           [TerraformVersion |-> V("1", "5"), Providers |-> <<>>, ParseError |-> TRUE] }

\* The path of the i-th file of a scan, relative to the scan root.
PathOf(i) == <<"env", i, "versions.tf">>

WithPaths(raw) ==
    [i \in 1..Len(raw) |->
        [FilePath |-> PathOf(i),
         TerraformVersion |-> raw[i].TerraformVersion,
         Providers |-> raw[i].Providers,
         ParseError |-> raw[i].ParseError]]

\* The orders in which Go may range over a map with these keys.
RangeOrders(keys) ==
    { o \in [1..Cardinality(keys) -> keys] :
        \A i, j \in 1..Cardinality(keys) : i # j => o[i] # o[j] }

(***************************************************************************)
(* version_analyzer.go: Analyzer                                           *)
(***************************************************************************)
\* The expected plugin version of analyzeVersionInfo's loop body.
ExpectedProviderVersion(config, providerName) ==
    IF /\ providerName = "aws"
       /\ config.Provider # None
       /\ config.Provider[1].AWS # None
    THEN config.Provider[1].AWS[1].Version
    ELSE <<>>

\* The ProviderDrift analyzeVersionInfo builds for one plugin of the file.
providerDrift(providerName, providerVer, expected) ==
    [Name |-> providerName,
     Source |-> providerVer.Source,
     Expected |-> expected,
     Actual |-> providerVer.Version,
     DriftStatus |-> compareProviderVersion(expected, providerVer.Version)]

\* Mutant: a not-managed plugin flags the record as drifting.
appendProviderDrift_NotManagedDrifts(record, drift) ==
    [record EXCEPT
        !.HasDrift = IF drift.DriftStatus # StatusInSync THEN TRUE ELSE @,
        !.Providers = Append(@, drift)]

\* The rest of the loop body: flag the record, append the entry.
appendProviderDrift(record, drift) ==
    [record EXCEPT
        !.HasDrift = IF drift.DriftStatus # StatusInSync
                        /\ drift.DriftStatus # StatusNotManaged
                     THEN TRUE ELSE @,
        !.Providers = Append(@, drift)]

\* The loop of analyzeVersionInfo over info.Providers, in range order `order`,
\* from position i on.
RECURSIVE analyzeProviders(_, _, _, _, _)
analyzeProviders(config, info, order, i, record) ==
    IF i > Len(order) THEN record
    ELSE analyzeProviders(config, info, order, i + 1,
             appendProviderDrift(record,
                 providerDrift(order[i], info.Providers[order[i]],
                               ExpectedProviderVersion(config, order[i]))))

\* The record analyzeVersionInfo starts from.
newDriftRecord(config, info) ==
    [FilePath |-> info.FilePath,
     TerraformExpected |-> config.TerraformVersion,
     TerraformActual |-> info.TerraformVersion,
     TerraformDriftStatus |->
         compareTerraformVersion(config.TerraformVersion, info.TerraformVersion),
     Providers |-> <<>>,
     HasDrift |-> FALSE]

\* The check of the core-tool status that ends analyzeVersionInfo.
checkTerraformDrift(record) ==
    IF record.TerraformDriftStatus # StatusInSync
    THEN [record EXCEPT !.HasDrift = TRUE]
    ELSE record

analyzeVersionInfo(config, info, order) ==
    checkTerraformDrift(
        analyzeProviders(config, info, order, 1, newDriftRecord(config, info)))

\* Mutant: only the core-tool status is looked at, the plugin loop is missing.
categorizeDriftSeverity_CoreOnly(summary, record) ==
    IF record.TerraformDriftStatus = StatusMajorDrift
    THEN [summary EXCEPT !.FilesWithMajorDrift = @ + 1]
    ELSE [summary EXCEPT !.FilesWithMinorDrift = @ + 1]

\* Mutant: a missing declaration weighs as much as a major drift.
categorizeDriftSeverity_MissingIsMajor(summary, record) ==
    LET hasMajor ==
            \/ record.TerraformDriftStatus \in {StatusMajorDrift, StatusMissing}
            \/ \E i \in 1..Len(record.Providers) :
                   record.Providers[i].DriftStatus \in {StatusMajorDrift, StatusMissing}
    IN IF hasMajor
       THEN [summary EXCEPT !.FilesWithMajorDrift = @ + 1]
       ELSE [summary EXCEPT !.FilesWithMinorDrift = @ + 1]

categorizeDriftSeverity(summary, record) ==
    LET hasMajor ==
            \/ record.TerraformDriftStatus = StatusMajorDrift
            \/ \E i \in 1..Len(record.Providers) :
                   record.Providers[i].DriftStatus = StatusMajorDrift
    IN IF hasMajor
       THEN [summary EXCEPT !.FilesWithMajorDrift = @ + 1]
       ELSE [summary EXCEPT !.FilesWithMinorDrift = @ + 1]

\* m[k]++ on a Go map of counters.
Incr(m, k) ==
    IF k \in DOMAIN m THEN [m EXCEPT ![k] = @ + 1]
    ELSE [x \in DOMAIN m \cup {k} |-> IF x = k THEN 1 ELSE m[x]]

\* ProviderVersions[name][version]++ for every plugin of info (the order of
\* the range does not matter to the counters); names is what is left to do.
RECURSIVE countProviders(_, _, _)
countProviders(pv, info, names) ==
    IF names = {} THEN pv
    ELSE LET n == CHOOSE x \in names : TRUE
             inner == IF n \in DOMAIN pv THEN pv[n] ELSE <<>>
             counted == Incr(inner, info.Providers[n].Version)
         IN countProviders(
                [x \in DOMAIN pv \cup {n} |-> IF x = n THEN counted ELSE pv[x]],
                info, names \ {n})

\* Analyze's loop body for a parsed record: append it, bucket the file.
bucketRecord(rep, record) ==
    IF record.HasDrift
    THEN [rep EXCEPT !.Records = Append(@, record),
                     !.FilesWithDrift = @ + 1,
                     !.Summary = categorizeDriftSeverity(@, record)]
    ELSE [rep EXCEPT !.Records = Append(@, record),
                     !.Summary.FilesInSync = @ + 1]

\* Analyze's loop body, the version histograms.
countVersions(rep, info) ==
    [rep EXCEPT
        !.Summary.TerraformVersions =
            IF info.TerraformVersion # <<>> THEN Incr(@, info.TerraformVersion) ELSE @,
        !.Summary.ProviderVersions = countProviders(@, info, DOMAIN info.Providers)]

\* Mutant: the `continue` after counting a parse error is missing.
analyzeOne_NoContinue(config, rep, info, order) ==
    countVersions(
        bucketRecord(IF info.ParseError
                     THEN [rep EXCEPT !.Summary.FilesWithErrors = @ + 1]
                     ELSE rep,
                     analyzeVersionInfo(config, info, order)),
        info)

\* Mutant: a record that is in sync is bucketed and left out of the list.
analyzeOne_DriftingOnly(config, rep, info, order) ==
    IF info.ParseError
    THEN [rep EXCEPT !.Summary.FilesWithErrors = @ + 1]
    ELSE LET record == analyzeVersionInfo(config, info, order)
             done == countVersions(bucketRecord(rep, record), info)
         IN IF record.HasDrift THEN done ELSE [done EXCEPT !.Records = rep.Records]

\* One iteration of Analyze's loop.
analyzeOne(config, rep, info, order) ==
    IF info.ParseError
    THEN [rep EXCEPT !.Summary.FilesWithErrors = @ + 1]
    ELSE countVersions(bucketRecord(rep, analyzeVersionInfo(config, info, order)), info)

RECURSIVE analyzeFrom(_, _, _, _, _)
analyzeFrom(config, versionInfos, orders, i, rep) ==
    IF i > Len(versionInfos) THEN rep
    ELSE analyzeFrom(config, versionInfos, orders, i + 1,
                     analyzeOne(config, rep, versionInfos[i], orders[i]))

\* Analyzer.Analyze; orders[i] is the order in which the i-th record's
\* Providers map is ranged over.  (ScannedAt, the wall clock, is left out.)
Analyze(config, scanRoot, versionInfos, orders) ==
    analyzeFrom(config, versionInfos, orders, 1,
        [ScanRoot |-> scanRoot,
         TotalFiles |-> Len(versionInfos),
         FilesWithDrift |-> 0,
         Records |-> <<>>,
         Summary |-> [TotalFiles |-> Len(versionInfos),
                      FilesInSync |-> 0,
                      FilesWithMinorDrift |-> 0,
                      FilesWithMajorDrift |-> 0,
                      FilesWithErrors |-> 0,
                      TerraformVersions |-> <<>>,
                      ProviderVersions |-> <<>>]])

\* DriftReport.HasCriticalDrift
HasCriticalDrift(r) == r.Summary.FilesWithMajorDrift > 0

\* Mutant: drift is looked at before the parse errors.
ExitCode_DriftFirst(r) ==
    IF r.FilesWithDrift > 0 THEN 1
    ELSE IF r.Summary.FilesWithErrors > 0 THEN 2
    ELSE 0

\* DriftReport.ExitCode
ExitCode(r) ==
    IF r.Summary.FilesWithErrors > 0 THEN 2
    ELSE IF r.FilesWithDrift > 0 THEN 1
    ELSE 0

(***************************************************************************)
(* plan models and plan analyzer (PlanAnalysis, PlanAnalyzer)              *)
(***************************************************************************)
SeverityLow == "low"
SeverityMedium == "medium"
SeverityHigh == "high"
SeverityCritical == "critical"

ExitCodeSuccess == 0
ExitCodeChanges == 1
ExitCodeCritical == 2

\* critical_resources.go: DefaultCriticalResources()
DefaultCriticalResources ==
    <<
       "aws_db_instance", "aws_db_cluster", "aws_rds_cluster",
       "aws_rds_cluster_instance", "aws_rds_global_cluster", "aws_db_subnet_group",
       "aws_db_parameter_group", "aws_rds_cluster_parameter_group", "aws_dynamodb_table",
       "aws_dynamodb_global_table", "aws_elasticache_cluster", "aws_elasticache_replication_group",
       "aws_redshift_cluster", "aws_neptune_cluster", "aws_neptune_cluster_instance",
       "aws_docdb_cluster", "aws_docdb_cluster_instance", "aws_s3_bucket",
       "aws_s3_bucket_policy", "aws_s3_bucket_public_access_block", "aws_efs_file_system",
       "aws_efs_access_point", "aws_backup_vault", "aws_backup_plan",
       "aws_vpc", "aws_subnet", "aws_route_table",
       "aws_route_table_association", "aws_internet_gateway", "aws_nat_gateway",
       "aws_vpc_peering_connection", "aws_vpn_gateway", "aws_vpn_connection",
       "aws_customer_gateway", "aws_transit_gateway", "aws_transit_gateway_route_table",
       "aws_vpc_endpoint", "aws_vpc_endpoint_service", "aws_security_group",
       "aws_security_group_rule", "aws_network_acl", "aws_network_acl_rule",
       "aws_iam_role", "aws_iam_role_policy", "aws_iam_role_policy_attachment",
       "aws_iam_policy", "aws_iam_user", "aws_iam_user_policy",
       "aws_iam_user_policy_attachment", "aws_iam_group", "aws_iam_group_policy",
       "aws_iam_group_policy_attachment", "aws_kms_key", "aws_kms_alias",
       "aws_secretsmanager_secret", "aws_secretsmanager_secret_version", "aws_waf_web_acl",
       "aws_waf_rule", "aws_waf_rule_group", "aws_wafv2_web_acl",
       "aws_wafv2_rule_group", "aws_wafv2_ip_set", "aws_wafv2_regex_pattern_set",
       "aws_waf_rate_based_rule", "aws_shield_protection", "aws_shield_protection_group"
    >>

containsAction(actions, action) == \E i \in 1..Len(actions) : actions[i] = action

isNoOp(actions) == Len(actions) = 1 /\ actions[1] = "no-op"

\* fmt.Sprintf("%v", actions): "[a b c]", as the sequence of its tokens.
RECURSIVE SpaceSeparated(_)
SpaceSeparated(actions) ==
    IF Len(actions) <= 1 THEN actions
    ELSE <<Head(actions), " ">> \o SpaceSeparated(Tail(actions))

SprintfV(actions) == <<"[">> \o SpaceSeparated(actions) \o <<"]">>

\* Mutant: only delete followed by create is a replacement.
formatActions_DeleteThenCreate(actions) ==
    IF Len(actions) = 0 THEN <<"no-op">>
    ELSE IF Len(actions) = 1 THEN <<actions[1]>>
    ELSE IF actions = <<"delete", "create">> THEN <<"replace">>
    ELSE SprintfV(actions)

\* formatActions; a label is the sequence of its tokens, <<"create">> for "create".
formatActions(actions) ==
    IF Len(actions) = 0 THEN <<"no-op">>
    ELSE IF Len(actions) = 1 THEN <<actions[1]>>
    ELSE IF containsAction(actions, "delete") /\ containsAction(actions, "create")
    THEN <<"replace">>
    ELSE SprintfV(actions)

isCriticalResource(types, resourceType) ==
    \E i \in 1..Len(types) : resourceType = types[i]

\* Mutant: the critical-resource rule is tried before the delete rule.
determineSeverity_HighFirst(types, actions, resourceType) ==
    IF isCriticalResource(types, resourceType) /\ containsAction(actions, "update")
    THEN SeverityHigh
    ELSE IF containsAction(actions, "delete") THEN SeverityCritical
    ELSE IF containsAction(actions, "update") THEN SeverityMedium
    ELSE SeverityLow

\* Mutant: a replacement is not critical, only a pure deletion is.
determineSeverity_ReplaceNotCritical(types, actions, resourceType) ==
    IF containsAction(actions, "delete") /\ ~containsAction(actions, "create")
    THEN SeverityCritical
    ELSE IF isCriticalResource(types, resourceType) /\ containsAction(actions, "update")
    THEN SeverityHigh
    ELSE IF containsAction(actions, "update") THEN SeverityMedium
    ELSE SeverityLow

determineSeverity(types, actions, resourceType) ==
    IF containsAction(actions, "delete") THEN SeverityCritical
    ELSE IF isCriticalResource(types, resourceType) /\ containsAction(actions, "update")
    THEN SeverityHigh
    ELSE IF containsAction(actions, "update") THEN SeverityMedium
    ELSE IF containsAction(actions, "create") THEN SeverityLow
    ELSE SeverityLow

\* Mutant: a replacement is counted as a replacement and as a deletion.
updateCounts_ReplaceIsAlsoDelete(a, actions) ==
    IF containsAction(actions, "create") /\ ~containsAction(actions, "delete")
    THEN [a EXCEPT !.Additions = @ + 1]
    ELSE IF containsAction(actions, "delete") /\ containsAction(actions, "create")
    THEN [a EXCEPT !.Replacements = @ + 1, !.Deletions = @ + 1]
    ELSE IF containsAction(actions, "delete")
    THEN [a EXCEPT !.Deletions = @ + 1]
    ELSE IF containsAction(actions, "update")
    THEN [a EXCEPT !.Modifications = @ + 1]
    ELSE a

updateCounts(a, actions) ==
    IF containsAction(actions, "create") /\ ~containsAction(actions, "delete")
    THEN [a EXCEPT !.Additions = @ + 1]
    ELSE IF containsAction(actions, "delete") /\ containsAction(actions, "create")
    THEN [a EXCEPT !.Replacements = @ + 1]
    ELSE IF containsAction(actions, "delete")
    THEN [a EXCEPT !.Deletions = @ + 1]
    ELSE IF containsAction(actions, "update")
    THEN [a EXCEPT !.Modifications = @ + 1]
    ELSE a

\* The AnalyzedResource PlanAnalyzer.Analyze builds for a resource change.
analyzedResource(types, rc) ==
    [Address |-> rc.Address,
     Type |-> rc.Type,
     Name |-> rc.Name,
     Provider |-> rc.ProviderName,
     Actions |-> rc.Change.Actions,
     ActionString |-> formatActions(rc.Change.Actions),
     Severity |-> determineSeverity(types, rc.Change.Actions, rc.Type),
     ModuleAddress |-> rc.ModuleAddress]

\* The groupings of PlanAnalyzer.Analyze's loop body.
groupChange(a, rc, analyzed) ==
    [a EXCEPT
        !.ByType = Incr(@, rc.Type),
        !.ByModule = Incr(@, IF rc.ModuleAddress # "" THEN rc.ModuleAddress ELSE "root"),
        !.BySeverity = Incr(@, analyzed.Severity),
        !.ByAction = Incr(@, analyzed.ActionString)]

\* The loop body for a change that is not skipped.
recordChange(a, rc, analyzed) ==
    groupChange(
        updateCounts([a EXCEPT !.ResourceChanges = Append(@, analyzed),
                               !.TotalChanges = @ + 1],
                     rc.Change.Actions),
        rc, analyzed)

\* Mutant: data sources are not skipped.
planAnalyzeOne_KeepsData(types, a, rc) ==
    IF Len(rc.Change.Actions) = 0 \/ isNoOp(rc.Change.Actions) THEN a
    ELSE recordChange(a, rc, analyzedResource(types, rc))

\* Mutant: a change without actions is processed like any other.
planAnalyzeOne_KeepsEmpty(types, a, rc) ==
    IF rc.Mode = "data" THEN a
    ELSE IF isNoOp(rc.Change.Actions) THEN a
    ELSE recordChange(a, rc, analyzedResource(types, rc))

\* One iteration of PlanAnalyzer.Analyze's loop.
planAnalyzeOne(types, a, rc) ==
    IF rc.Mode = "data" THEN a
    ELSE IF Len(rc.Change.Actions) = 0 \/ isNoOp(rc.Change.Actions) THEN a
    ELSE recordChange(a, rc, analyzedResource(types, rc))

RECURSIVE planAnalyzeFrom(_, _, _, _)
planAnalyzeFrom(types, changes, i, a) ==
    IF i > Len(changes) THEN a
    ELSE planAnalyzeFrom(types, changes, i + 1, planAnalyzeOne(types, a, changes[i]))

emptyAnalysis(terraformVersion) ==
    [TotalChanges |-> 0,
     Additions |-> 0,
     Modifications |-> 0,
     Deletions |-> 0,
     Replacements |-> 0,
     ResourceChanges |-> <<>>,
     TerraformVersion |-> terraformVersion,
     HasChanges |-> FALSE,
     ByType |-> <<>>,
     ByModule |-> <<>>,
     BySeverity |-> <<>>,
     ByAction |-> <<>>]

\* HasChanges = TotalChanges > 0, the last statement of PlanAnalyzer.Analyze.
setHasChanges(a) == [a EXCEPT !.HasChanges = a.TotalChanges > 0]

\* PlanAnalyzer.Analyze; planPtr is <<>> for a nil plan, <<plan>> otherwise.
PlanAnalyze(types, planPtr) ==
    IF planPtr = <<>> THEN emptyAnalysis("unknown")
    ELSE setHasChanges(
             planAnalyzeFrom(types, planPtr[1].ResourceChanges, 1,
                             emptyAnalysis(planPtr[1].TerraformVersion)))

\* Mutant: critical only when deletions and replacements outnumber the rest.
PlanExitCode_Majority(a) ==
    IF a.Deletions + a.Replacements > a.Additions + a.Modifications
    THEN ExitCodeCritical
    ELSE IF a.TotalChanges > 0 THEN ExitCodeChanges
    ELSE ExitCodeSuccess

\* PlanAnalysis.ExitCode
PlanExitCode(a) ==
    IF a.Deletions > 0 \/ a.Replacements > 0 THEN ExitCodeCritical
    ELSE IF a.TotalChanges > 0 THEN ExitCodeChanges
    ELSE ExitCodeSuccess

(***************************************************************************)
(* The plans the plan analyzer is checked on.                              *)
(***************************************************************************)
\* The action lists of a plan: none, the ones terraform writes, and
\* combinations the analyzer names no category for.
ActionLists ==
    { <<>>, <<"no-op">>, <<"create">>, <<"read">>, <<"update">>, <<"delete">>,
      <<"delete", "create">>, <<"create", "delete">>,
      <<"create", "update">>, <<"update", "delete">>, <<"read", "no-op">>,
      <<"delete", "create", "update">> }

\* A kind of DefaultCriticalResources and one outside it.
ResourceTypes == {"aws_s3_bucket", "aws_instance"}

ChangeShape(mode, type, module, actions) ==
    [Mode |-> mode, Type |-> type, ModuleAddress |-> module, Actions |-> actions]

\* Managed resources of the root module with every action list, data sources,
\* and resources of a child module.
ChangeShapes ==
    { ChangeShape("managed", t, "", a) : t \in ResourceTypes, a \in ActionLists }
    \cup { ChangeShape("data", "aws_ami", "", a) : a \in {<<"read">>, <<"no-op">>} }
    \cup { ChangeShape("managed", "aws_s3_bucket", "module.vpc", a) :
             a \in {<<"create">>, <<"update">>, <<"delete", "create">>} }

\* The i-th resource change of a plan; its address is unique within the plan.
ResourceChangeOf(shape, i) ==
    [Address |-> <<shape.ModuleAddress, shape.Type, i>>,
     ModuleAddress |-> shape.ModuleAddress,
     Mode |-> shape.Mode,
     Type |-> shape.Type,
     Name |-> <<"r", i>>,
     ProviderName |-> "registry.terraform.io/hashicorp/aws",
     Change |-> [Actions |-> shape.Actions]]

PlanOf(shapes) ==
    [FormatVersion |-> "1.2",
     TerraformVersion |-> "1.9.0",
     ResourceChanges |-> [i \in 1..Len(shapes) |-> ResourceChangeOf(shapes[i], i)]]

\* A plan pointer: nil, or a plan of at most MaxChanges resource changes.
PlanPointers == {<<>>} \cup {<<PlanOf(shapes)>> : shapes \in SeqsUpTo(ChangeShapes, MaxChanges)}

\* The idle values of the state variables.
InitIdle ==
    /\ cfg = None
    /\ infos = None
    /\ report = None
    /\ sevCall = None
    /\ cmp = None
    /\ criticalResourceTypes = <<>>
    /\ plan = None
    /\ analysis = None
    /\ fsys = None
    /\ scanned = None
    /\ planFile = None
    /\ parsed = None
    /\ rendered = None
    /\ merged = None
    /\ cmdErr = None
    /\ exitStatus = None
    /\ combined = None
    /\ invocation = None
    /\ project = None
    /\ generated = None

(***************************************************************************)
(* SpecDrift: an Analyzer is constructed with a configuration; the run     *)
(* calls Analyze on a list of extractor records, or hands                  *)
(* categorizeDriftSeverity a summary and a record directly.                *)
(***************************************************************************)
InitDrift ==
    /\ cfg \in {<<c>> : c \in Configs}
    /\ infos = None
    /\ report = None
    /\ sevCall = None
    /\ cmp = None
    /\ criticalResourceTypes = <<>>
    /\ plan = None
    /\ analysis = None
    /\ fsys = None
    /\ scanned = None
    /\ planFile = None
    /\ parsed = None
    /\ rendered = None
    /\ merged = None
    /\ cmdErr = None
    /\ exitStatus = None
    /\ combined = None
    /\ invocation = None
    /\ project = None
    /\ generated = None

\* An extractor record together with the order in which Go ranges over its
\* Providers map in this run.
VersionInputs ==
    UNION { { [data |-> d, order |-> o] : o \in RangeOrders(DOMAIN d.Providers) } :
            d \in VersionData }

DataOf(ins) == [i \in 1..Len(ins) |-> ins[i].data]
OrdersOf(ins) == [i \in 1..Len(ins) |-> ins[i].order]

\* report := analyzer.Analyze(scanRoot, versionInfos)
AnalyzeCall ==
    /\ report = None
    /\ sevCall = None
    /\ \E ins \in SeqsUpTo(VersionInputs, MaxFiles) :
          /\ infos' = <<WithPaths(DataOf(ins))>>
          /\ report' = <<Analyze(cfg[1], <<"scan", "root">>,
                                 WithPaths(DataOf(ins)), OrdersOf(ins))>>
    /\ UNCHANGED <<cfg, sevCall, cmp, criticalResourceTypes, plan, analysis, fsys, scanned, planFile, parsed, rendered, merged, cmdErr, exitStatus, combined, invocation, project, generated>>

\* The records categorizeDriftSeverity can be handed: any status of the core
\* tool and of each plugin entry.
DriftRecordShapes ==
    { [FilePath |-> PathOf(1),
       TerraformDriftStatus |-> t,
       Providers |-> ps] :
        t \in DriftStatuses,
        ps \in SeqsUpTo({[Name |-> "plugin", DriftStatus |-> st] : st \in DriftStatuses},
                        MaxPlugins) }

SummaryShapes ==
    { [FilesInSync |-> 0,
       FilesWithMinorDrift |-> mi,
       FilesWithMajorDrift |-> ma,
       FilesWithErrors |-> 0] : mi \in 0..1, ma \in 0..1 }

\* categorizeDriftSeverity(&summary, record)
CategorizeCall ==
    /\ report = None
    /\ sevCall = None
    /\ \E summary \in SummaryShapes, record \in DriftRecordShapes :
          sevCall' = <<[record |-> record,
                        before |-> summary,
                        after |-> categorizeDriftSeverity(summary, record)]>>
    /\ UNCHANGED <<cfg, infos, report, cmp, criticalResourceTypes, plan, analysis, fsys, scanned, planFile, parsed, rendered, merged, cmdErr, exitStatus, combined, invocation, project, generated>>

NextDrift == AnalyzeCall \/ CategorizeCall

SpecDrift == InitDrift /\ [][NextDrift]_vars

(***************************************************************************)
(* SpecPlan: a PlanAnalyzer is constructed (NewPlanAnalyzer, or            *)
(* NewPlanAnalyzerWithTypes with a list of its own) and analyzes one plan. *)
(***************************************************************************)
InitPlan ==
    /\ cfg = None
    /\ infos = None
    /\ report = None
    /\ sevCall = None
    /\ cmp = None
    /\ criticalResourceTypes \in {DefaultCriticalResources, <<"aws_instance">>}
    /\ plan = None
    /\ analysis = None
    /\ fsys = None
    /\ scanned = None
    /\ planFile = None
    /\ parsed = None
    /\ rendered = None
    /\ merged = None
    /\ cmdErr = None
    /\ exitStatus = None
    /\ combined = None
    /\ invocation = None
    /\ project = None
    /\ generated = None

\* analysis := analyzer.Analyze(plan)
PlanAnalyzeCall ==
    /\ analysis = None
    /\ \E planPtr \in PlanPointers :
          /\ plan' = <<planPtr>>
          /\ analysis' = <<PlanAnalyze(criticalResourceTypes, planPtr)>>
    /\ UNCHANGED <<cfg, infos, report, sevCall, cmp, criticalResourceTypes, fsys, scanned, planFile, parsed, rendered, merged, cmdErr, exitStatus, combined, invocation, project, generated>>

NextPlan == PlanAnalyzeCall

SpecPlan == InitPlan /\ [][NextPlan]_vars

(***************************************************************************)
(* SpecCompare: the two comparison functions on every pair of strings.     *)
(***************************************************************************)
\* compareTerraformVersion(expected, actual) and
\* compareProviderVersion(expected, actual)
CompareCall ==
    /\ cmp = None
    /\ \E expected \in ConstraintStrings, actual \in ConstraintStrings :
          cmp' = <<[expected |-> expected,
                    actual |-> actual,
                    terraform |-> compareTerraformVersion(expected, actual),
                    provider |-> compareProviderVersion(expected, actual)]>>
    /\ UNCHANGED <<cfg, infos, report, sevCall, criticalResourceTypes, plan, analysis, fsys, scanned, planFile, parsed, rendered, merged, cmdErr, exitStatus, combined, invocation, project, generated>>

NextCompare == CompareCall

SpecCompare == InitIdle /\ [][NextCompare]_vars

(***************************************************************************)
(* Properties of the drift analyzer (SpecDrift).                           *)
(***************************************************************************)
AnyMajor(record) ==
    \/ record.TerraformDriftStatus = StatusMajorDrift
    \/ \E i \in 1..Len(record.Providers) :
           record.Providers[i].DriftStatus = StatusMajorDrift

HasPluginStatus(record, status) ==
    \E i \in 1..Len(record.Providers) : record.Providers[i].DriftStatus = status

CountOf(seq, P(_)) == Cardinality({i \in 1..Len(seq) : P(seq[i])})

\* C1: in every report Analyze returns, TotalFiles is the sum of the four
\* summary buckets (in sync, minor drift, major drift, errors) and
\* FilesWithDrift is the sum of the minor and the major bucket.
C1_BucketsPartitionFiles ==
    report # None =>
        LET r == report[1] IN
        /\ r.TotalFiles = r.Summary.FilesInSync + r.Summary.FilesWithMinorDrift
                          + r.Summary.FilesWithMajorDrift + r.Summary.FilesWithErrors
        /\ r.FilesWithDrift = r.Summary.FilesWithMinorDrift + r.Summary.FilesWithMajorDrift

\* A report over a parse-error record and a drifting record.
C1_Witness ==
    /\ report # None
    /\ report[1].Summary.FilesWithErrors = 1
    /\ report[1].FilesWithDrift = 1
    /\ report[1].TotalFiles = 2

\* C2: a record with a major-drift status anywhere (core tool or plugin) is
\* counted once in FilesWithMajorDrift and not in FilesWithMinorDrift: a direct
\* categorizeDriftSeverity call on such a record adds one to the major bucket
\* and leaves the minor bucket alone, and in a report the major bucket counts
\* exactly the records with a major status, the two drift buckets together
\* exactly the drifting records.
C2_AnyMajorIsMajorOnce ==
    /\ sevCall # None =>
          LET c == sevCall[1] IN
          AnyMajor(c.record) =>
              /\ c.after.FilesWithMajorDrift = c.before.FilesWithMajorDrift + 1
              /\ c.after.FilesWithMinorDrift = c.before.FilesWithMinorDrift
    /\ report # None =>
          LET r == report[1] IN
          /\ r.Summary.FilesWithMajorDrift = CountOf(r.Records, AnyMajor)
          /\ r.Summary.FilesWithMajorDrift + r.Summary.FilesWithMinorDrift
                = CountOf(r.Records, LAMBDA rec : rec.HasDrift)

\* categorizeDriftSeverity was handed a record with one minor-drift and one
\* major-drift plugin.
C2_Witness ==
    /\ sevCall # None
    /\ Len(sevCall[1].record.Providers) = 2
    /\ HasPluginStatus(sevCall[1].record, StatusMinorDrift)
    /\ HasPluginStatus(sevCall[1].record, StatusMajorDrift)
    /\ sevCall[1].record.TerraformDriftStatus = StatusInSync
    /\ sevCall[1].after.FilesWithMajorDrift = sevCall[1].before.FilesWithMajorDrift + 1

\* C3: every record of a report has HasDrift exactly when its core-tool
\* status is not in-sync or some plugin status is neither in-sync nor
\* not-managed.
C3_HasDriftIffStatus ==
    report # None =>
        \A i \in 1..Len(report[1].Records) :
            LET rec == report[1].Records[i] IN
            rec.HasDrift <=>
                \/ rec.TerraformDriftStatus # StatusInSync
                \/ \E j \in 1..Len(rec.Providers) :
                       rec.Providers[j].DriftStatus \notin {StatusInSync, StatusNotManaged}

\* A record with an in-sync core tool and a not-managed plugin: no drift.
C3_Witness ==
    /\ report # None
    /\ \E i \in 1..Len(report[1].Records) :
           /\ HasPluginStatus(report[1].Records[i], StatusNotManaged)
           /\ report[1].Records[i].TerraformDriftStatus = StatusInSync
           /\ ~report[1].Records[i].HasDrift

\* C6: ExitCode is 2 when a parse error was counted, drift or not; otherwise
\* 1 when a file has drift; otherwise 0.
C6_DriftExitCode ==
    report # None =>
        LET r == report[1] IN
        /\ r.Summary.FilesWithErrors > 0 => ExitCode(r) = 2
        /\ r.Summary.FilesWithErrors = 0 /\ r.FilesWithDrift > 0 => ExitCode(r) = 1
        /\ r.Summary.FilesWithErrors = 0 /\ r.FilesWithDrift = 0 => ExitCode(r) = 0

\* A report with a parse error and a drifting file exits 2.
C6_Witness ==
    /\ report # None
    /\ report[1].Summary.FilesWithErrors > 0
    /\ report[1].FilesWithDrift > 0
    /\ ExitCode(report[1]) = 2

(***************************************************************************)
(* Properties of the comparison (SpecCompare).                             *)
(***************************************************************************)
\* The parts of a constraint string the code hands to strconv.Atoi.
NumberParts(version) == Split(StripOperators(TrimSpace(version)), ".")

MajorParses(version) == Atoi(NumberParts(version)[1]).ok

\* The string has a minor part and it is not an integer.
MinorFails(version) ==
    /\ Len(NumberParts(version)) > 1
    /\ ~Atoi(NumberParts(version)[2]).ok

C5_EqualIsInSync ==
    cmp # None =>
        (cmp[1].expected = cmp[1].actual
            => cmp[1].terraform = StatusInSync /\ cmp[1].provider = StatusInSync)

\* C5 amended: equal non-empty strings are in-sync in both comparisons; two
\* empty strings are missing in the core-tool comparison and not-managed in
\* the plugin comparison.
C5_EqualNonEmptyIsInSync ==
    cmp # None =>
        (cmp[1].expected = cmp[1].actual
            => IF cmp[1].actual # <<>>
               THEN cmp[1].terraform = StatusInSync /\ cmp[1].provider = StatusInSync
               ELSE cmp[1].terraform = StatusMissing /\ cmp[1].provider = StatusNotManaged)

\* A string no number can be extracted from was compared with itself.
C5_Witness ==
    /\ cmp # None
    /\ cmp[1].expected = cmp[1].actual
    /\ cmp[1].actual # <<>>
    /\ ~MajorParses(cmp[1].actual)
    /\ cmp[1].terraform = StatusInSync
    /\ cmp[1].provider = StatusInSync

(***************************************************************************)
(* Properties of the plan analyzer (SpecPlan).                             *)
(***************************************************************************)
ActionSet(actions) == {actions[k] : k \in 1..Len(actions)}

\* The action list names one of the four categories of change.
Categorized(actions) == ActionSet(actions) \cap {"create", "delete", "update"} # {}

CounterSum(a) == a.Additions + a.Modifications + a.Deletions + a.Replacements

\* The resource changes of the analyzed plan (none for a nil plan).
PlanChanges == IF plan[1] = <<>> THEN <<>> ELSE plan[1][1].ResourceChanges

\* The changes Analyze does not skip: not a data source, and an action list
\* that is neither empty nor exactly ["no-op"].
KeptChanges ==
    SelectSeq(PlanChanges,
              LAMBDA rc : rc.Mode # "data" /\ rc.Change.Actions \notin {<<>>, <<"no-op">>})

RECURSIVE MapSum(_)
MapSum(m) ==
    IF DOMAIN m = {} THEN 0
    ELSE LET k == CHOOSE x \in DOMAIN m : TRUE
         IN m[k] + MapSum([x \in DOMAIN m \ {k} |-> m[x]])

\* C7: ExitCode is 2 whenever there is a deletion or a replacement, however
\* many additions and modifications there are; 0 when there are no changes;
\* 1 otherwise.
C7_PlanExitCode ==
    analysis # None =>
        LET a == analysis[1] IN
        /\ a.Deletions > 0 \/ a.Replacements > 0 => PlanExitCode(a) = 2
        /\ a.TotalChanges = 0 => PlanExitCode(a) = 0
        /\ a.Deletions = 0 /\ a.Replacements = 0 /\ a.TotalChanges > 0
              => PlanExitCode(a) = 1

\* One deletion or replacement beside an addition: exit code 2.
C7_Witness ==
    /\ analysis # None
    /\ analysis[1].Additions >= 1
    /\ analysis[1].Deletions + analysis[1].Replacements = 1
    /\ PlanExitCode(analysis[1]) = 2

\* C8: the severity of every analyzed change is critical if its actions
\* contain delete; else high if its kind is a critical resource type and the
\* actions contain update; else medium if they contain update; else low.
C8_SeverityPriority ==
    analysis # None =>
        \A i \in 1..Len(analysis[1].ResourceChanges) :
            LET r == analysis[1].ResourceChanges[i]
                critical == \E j \in 1..Len(criticalResourceTypes) :
                                criticalResourceTypes[j] = r.Type
            IN r.Severity =
                 IF "delete" \in ActionSet(r.Actions) THEN "critical"
                 ELSE IF critical /\ "update" \in ActionSet(r.Actions) THEN "high"
                 ELSE IF "update" \in ActionSet(r.Actions) THEN "medium"
                 ELSE "low"

\* An update and delete of a critical resource kind is critical, not high.
C8_Witness ==
    /\ analysis # None
    /\ \E i \in 1..Len(analysis[1].ResourceChanges) :
          LET r == analysis[1].ResourceChanges[i] IN
          /\ {"update", "delete"} \subseteq ActionSet(r.Actions)
          /\ \E j \in 1..Len(criticalResourceTypes) : criticalResourceTypes[j] = r.Type
          /\ r.Severity = "critical"

Alphabet ==
    <<".", "a", "b", "c", "d", "e", "f", "g", "h", "i", "j", "k", "l", "m",
      "n", "o", "p", "q", "r", "s", "t", "u", "v", "w", "x", "y", "z">>

ByteOf(c) == CHOOSE i \in 1..Len(Alphabet) : Alphabet[i] = c

\* a < b as Go compares strings (os.ReadDir sorts directory entries by name)
RECURSIVE StringLess(_, _)
StringLess(a, b) ==
    IF b = <<>> THEN FALSE
    ELSE IF a = <<>> THEN TRUE
    ELSE IF Head(a) # Head(b) THEN ByteOf(Head(a)) < ByteOf(Head(b))
    ELSE StringLess(Tail(a), Tail(b))

\* strings.HasPrefix / strings.HasSuffix
HasPrefix(s, prefix) ==
    Len(s) >= Len(prefix) /\ SubSeq(s, 1, Len(prefix)) = prefix

HasSuffix(s, suffix) ==
    Len(s) >= Len(suffix) /\ SubSeq(s, Len(s) - Len(suffix) + 1, Len(s)) = suffix

\* filepath.Dir of a relative path
Dir(relPath) == SubSeq(relPath, 1, Len(relPath) - 1)

VersionsTf == <<"v", "e", "r", "s", "i", "o", "n", "s", ".", "t", "f">>
MainTf == <<"m", "a", "i", "n", ".", "t", "f">>
ZonesTf == <<"z", "o", "n", "e", "s", ".", "t", "f">>
NotesMd == <<"n", "o", "t", "e", "s", ".", "m", "d">>
DotTerraform == <<".", "t", "e", "r", "r", "a", "f", "o", "r", "m">>
Envs == <<"e", "n", "v", "s">>
Proj == <<"p", "r", "o", "j">>
DotInfra == <<".", "i", "n", "f", "r", "a">>

\* What reading and parsing a file gives: whether os.ReadFile succeeds,
\* whether ParseHCL reports error diagnostics, and the required_version and
\* required_providers of the terraform block in the part of the file that
\* could be parsed (none when there is no such block or no body at all).
FileContent(readable, hasErrors, requiredVersion, requiredProviders) ==
    [readable |-> readable, hasErrors |-> hasErrors,
     requiredVersion |-> requiredVersion, requiredProviders |-> requiredProviders]

File(name, content) == [kind |-> "file", name |-> name, content |-> content]

AwsOnly(version) == [n \in {"aws"} |-> ProviderVer(n, version)]

\* The files a directory is populated from.
FileShapes ==
    { File(MainTf, FileContent(TRUE, FALSE, V("1", "5"), <<>>)),
      File(MainTf, FileContent(TRUE, TRUE, V("1", "5"), <<>>)),
      File(MainTf, FileContent(TRUE, TRUE, <<>>, <<>>)),
      File(MainTf, FileContent(FALSE, FALSE, <<>>, <<>>)),
      File(VersionsTf, FileContent(TRUE, FALSE, V("1", "6"), AwsOnly(V("6", "0")))),
      File(VersionsTf, FileContent(TRUE, FALSE, <<>>, <<>>)),
      File(ZonesTf, FileContent(TRUE, FALSE, <<>>, AwsOnly(V("4", "0")))),
      File(NotesMd, FileContent(TRUE, FALSE, V("2", "0"), <<>>)) }

\* Most files in one directory.
MaxDirFiles == 2

\* Sets of files with different names.
FileSets ==
    { fs \in SUBSET FileShapes :
        /\ Cardinality(fs) <= MaxDirFiles
        /\ \A f, g \in fs : f.name = g.name => f = g }

\* A directory: its name, whether os.ReadDir succeeds on it, its entries.
Directory(name, readable, entries) ==
    [kind |-> "dir", name |-> name, readable |-> readable, entries |-> entries]

DirNames == {DotTerraform, Envs}

\* Directories two levels below the root.
InnerDirs ==
    { Directory(name, TRUE, fs) :
        name \in DirNames,
        fs \in {{}, {File(VersionsTf, FileContent(TRUE, FALSE, V("1", "5"), <<>>))}} }
    \cup { Directory(name, FALSE, {}) : name \in DirNames }

\* Directories one level below the root.
SubDirs ==
    { Directory(name, TRUE, fs \cup ds) :
        name \in DirNames, fs \in FileSets, ds \in {{}} \cup {{d} : d \in InnerDirs} }
    \cup { Directory(name, FALSE, {}) : name \in DirNames }

\* The tree at the Detector's rootPath.
RootDirs ==
    { Directory(name, TRUE, fs \cup ds) :
        name \in {Proj, DotInfra}, fs \in FileSets, ds \in {{}} \cup {{d} : d \in SubDirs} }
    \cup { Directory(name, FALSE, {}) : name \in {Proj, DotInfra} }

\* os.ReadDir: the entries sorted by name.
RECURSIVE ReadDir(_)
ReadDir(entries) ==
    IF entries = {} THEN <<>>
    ELSE LET first == CHOOSE e \in entries :
                          \A o \in entries \ {e} : StringLess(e.name, o.name)
         IN <<first>> \o ReadDir(entries \ {first})

\* Detector.parseWithHCL, with extractTerraformBlock and
\* extractProvidersBlock: the VersionInfo and the error it returns.
parseWithHCL(content, relPath) ==
    IF ~content.readable
    THEN [info |-> [FilePath |-> <<>>, TerraformVersion |-> <<>>,
                    Providers |-> <<>>, ParseError |-> FALSE],
          err |-> TRUE]
    ELSE [info |-> [FilePath |-> relPath,
                    TerraformVersion |-> content.requiredVersion,
                    Providers |-> content.requiredProviders,
                    ParseError |-> content.hasErrors],
          err |-> FALSE]

\* Detector.extractVersionInfo
extractVersionInfo(content, relPath) == parseWithHCL(content, relPath)

\* The state of one ScanDirectory call: results, seenFiles, and whether the
\* walk function has returned an error, which ends the walk.
NewScan == [results |-> <<>>, seenFiles |-> {}, err |-> FALSE]

\* ScanDirectory appends the record of an extraction that succeeded.
addIfVersionInfo(scan, versionInfo, dirPath) ==
    IF versionInfo.TerraformVersion # <<>> \/ Cardinality(DOMAIN versionInfo.Providers) > 0
    THEN [scan EXCEPT !.results = Append(@, versionInfo),
                      !.seenFiles = @ \cup {dirPath}]
    ELSE scan

\* ScanDirectory records the error of an extraction that failed.
addParseError(scan, relPath) ==
    [scan EXCEPT !.results =
        Append(@, [FilePath |-> relPath, TerraformVersion |-> <<>>,
                   Providers |-> <<>>, ParseError |-> TRUE])]

\* The extraction part of the walk function, for a .tf file not skipped.
extractInto(scan, extracted, relPath) ==
    IF extracted.err THEN addParseError(scan, relPath)
    ELSE addIfVersionInfo(scan, extracted.info, Dir(relPath))

\* The walk function of ScanDirectory on a file.
visitFile(scan, relPath, entry) ==
    IF ~HasSuffix(entry.name, <<".", "t", "f">>) THEN scan
    ELSE IF Dir(relPath) \in scan.seenFiles /\ entry.name # VersionsTf THEN scan
    ELSE extractInto(scan, extractVersionInfo(entry.content, relPath), relPath)

\* Mutant: every directory whose name starts with a dot is skipped, the root too.
skipDir_RootToo(relPath, entry) == HasPrefix(entry.name, <<".">>)

\* The walk function of ScanDirectory on a directory: TRUE when it returns
\* filepath.SkipDir.  Only the root has the path <<>>.
skipDir(relPath, entry) == relPath # <<>> /\ HasPrefix(entry.name, <<".">>)

\* filepath.WalkDir with the walk function of ScanDirectory: an entry, then
\* for a directory not skipped its entries in ReadDir order; a directory that
\* cannot be read hands the walk function an error, which it returns.
RECURSIVE walkDir(_, _, _)
RECURSIVE walkEntries(_, _, _, _)
walkDir(scan, relPath, entry) ==
    IF scan.err THEN scan
    ELSE IF entry.kind = "file" THEN visitFile(scan, relPath, entry)
    ELSE IF skipDir(relPath, entry) THEN scan
    ELSE IF ~entry.readable THEN [scan EXCEPT !.err = TRUE]
    ELSE walkEntries(scan, relPath, ReadDir(entry.entries), 1)

walkEntries(scan, relPath, entries, i) ==
    IF i > Len(entries) THEN scan
    ELSE walkEntries(walkDir(scan, Append(relPath, entries[i].name), entries[i]),
                     relPath, entries, i + 1)

\* Detector.ScanDirectory
scanReturn(scan) == [results |-> scan.results, err |-> scan.err]

ScanDirectory(rootDir) == scanReturn(walkDir(NewScan, <<>>, rootDir))

(***************************************************************************)
(* SpecScan: a Detector is constructed on a root and scans it once.        *)
(***************************************************************************)
\* results, err := detector.ScanDirectory()
ScanCall ==
    /\ scanned = None
    /\ \E rootDir \in RootDirs :
          /\ fsys' = <<rootDir>>
          /\ scanned' = <<ScanDirectory(rootDir)>>
    /\ UNCHANGED <<cfg, infos, report, sevCall, cmp, criticalResourceTypes, plan, analysis, planFile, parsed, rendered, merged, cmdErr, exitStatus, combined, invocation, project, generated>>

NextScan == ScanCall

SpecScan == InitIdle /\ [][NextScan]_vars

(***************************************************************************)
(* Properties of the extractor (SpecScan).                                 *)
(***************************************************************************)
\* Every directory of a tree, with its path below the root.
RECURSIVE DirsUnder(_, _)
DirsUnder(relPath, dir) ==
    {[path |-> relPath, dir |-> dir]}
    \cup UNION { DirsUnder(Append(relPath, e.name), e) :
                   e \in {x \in dir.entries : x.kind = "dir"} }

\* Every file of a tree, with its path below the root.
FilesUnder(rootDir) ==
    UNION { { [path |-> Append(d.path, f.name), file |-> f] :
                f \in {x \in d.dir.entries : x.kind = "file"} } :
            d \in DirsUnder(<<>>, rootDir) }

ScannedPaths == {scanned[1].results[i].FilePath : i \in 1..Len(scanned[1].results)}

DeclaresVersions(content) ==
    content.requiredVersion # <<>> \/ DOMAIN content.requiredProviders # {}

\* C11: in a directory that holds a versions.tf (here even: one that parses
\* cleanly and declares version constraints), the scan's output has no record
\* of any other file of that directory (here even: no record with version
\* data; records of read errors are let through).
C11_CanonicalFileIsSoleSource ==
    scanned # None =>
        \A d \in DirsUnder(<<>>, fsys[1]) :
            (\E f \in d.dir.entries :
                /\ f.kind = "file" /\ f.name = VersionsTf
                /\ f.content.readable /\ ~f.content.hasErrors
                /\ DeclaresVersions(f.content))
            => \A i \in 1..Len(scanned[1].results) :
                  LET r == scanned[1].results[i] IN
                  Dir(r.FilePath) = d.path /\ ~r.ParseError
                      => r.FilePath[Len(r.FilePath)] = VersionsTf

IsTf(name) == HasSuffix(name, <<".", "t", "f">>)

RootFiles == {e \in fsys[1].entries : e.kind = "file"}

\* C12: a record with a parse error carries no core-tool constraint and no
\* plugins; and a .tf file that fails to parse (it cannot be read, or the
\* parser reports errors) gets such a record.  The second half is stated for
\* a file that is the only .tf file of the root, in a walk that met no error.
C12_ParseErrorRecordsCarryOnlyTheError ==
    scanned # None =>
        /\ \A i \in 1..Len(scanned[1].results) :
              LET r == scanned[1].results[i] IN
              r.ParseError => r.TerraformVersion = <<>> /\ DOMAIN r.Providers = {}
        /\ \A f \in RootFiles :
              /\ ~scanned[1].err
              /\ IsTf(f.name)
              /\ \A g \in RootFiles : IsTf(g.name) => g = f
              /\ ~f.content.readable \/ f.content.hasErrors
              => \E i \in 1..Len(scanned[1].results) :
                    /\ scanned[1].results[i].FilePath = <<f.name>>
                    /\ scanned[1].results[i].ParseError

\* The names of the directories on the way to a file.
DirNamesOf(relPath) == {relPath[k] : k \in 1..(Len(relPath) - 1)}

IsHidden(name) == HasPrefix(name, <<".">>)

\* The directories the walk may enter: no name on the path below the root
\* starts with a dot.
VisibleDirs ==
    { d \in DirsUnder(<<>>, fsys[1]) :
        \A k \in 1..Len(d.path) : ~IsHidden(d.path[k]) }

\* C18: no record is of a file under a directory, at any depth below the
\* root, whose name starts with '.'; such a directory is not entered (if it
\* cannot be read the walk does not fail: the walk fails exactly when a
\* directory outside the dotted ones cannot be read); and the root is
\* scanned even when its own name starts with '.'.
C18_HiddenDirectoriesPruned ==
    scanned # None =>
        /\ \A p \in ScannedPaths : \A n \in DirNamesOf(p) : ~IsHidden(n)
        /\ scanned[1].err <=> \E d \in VisibleDirs : ~d.dir.readable
        /\ \A f \in RootFiles :
              /\ ~scanned[1].err
              /\ f.name = VersionsTf
              /\ f.content.readable /\ DeclaresVersions(f.content)
              => <<VersionsTf>> \in ScannedPaths

\* A root named .infra whose versions.tf is recorded, with a .terraform
\* below it that holds a versions.tf, which is not.
C18_Witness ==
    /\ scanned # None
    /\ fsys[1].name = DotInfra
    /\ <<VersionsTf>> \in ScannedPaths
    /\ \E f \in FilesUnder(fsys[1]) :
          /\ Len(f.path) = 2 /\ f.path[1] = DotTerraform
          /\ DeclaresVersions(f.file.content)
          /\ f.path \notin ScannedPaths

(***************************************************************************)
(* Plan parser: ParsePlanFile and checkBinaryFormat.                       *)
(*                                                                         *)
(* A plan document is a sequence of bytes, each a one-character string;    *)
(* "0xEF", "0xBB", "0xBF" are the bytes of the UTF-8 byte-order mark and   *)
(* "0x00", "0x01" two bytes of a binary plan.                              *)
(***************************************************************************)
\* const headerBufferSize
headerBufferSize == 128

ErrBinaryFormat == "plan file is in binary format"
ErrMissingFormatVersion == "invalid plan file: missing format_version"
ErrOpen == "failed to open plan file"
ErrRead == "failed to read plan file"
ErrInvalidFormat == "invalid plan file format"

ByteOrderMark == <<"0xEF", "0xBB", "0xBF">>

\* The bytes checkBinaryFormat skips; they are also the whitespace of JSON.
PlanSpace == {" ", "\t", "\r", "\n"}

\* The byte at index i of a document, "EOF" past its end.
At(d, i) == IF i \in 1..Len(d) THEN d[i] ELSE "EOF"

\* file.Read(header): the first headerBufferSize bytes of the file.
ReadHeader(bytes) ==
    SubSeq(bytes, 1, IF Len(bytes) < headerBufferSize THEN Len(bytes) ELSE headerBufferSize)

\* The offset checkBinaryFormat starts at (0-based, as in the code).
bomOffset(header) ==
    IF Len(header) >= 3 /\ SubSeq(header, 1, 3) = ByteOrderMark THEN 3 ELSE 0

\* The 0-based indexes from offset on at which the loop of checkBinaryFormat
\* finds a byte that is not whitespace.
nonSpaceFrom(header, offset) ==
    {i \in offset..(Len(header) - 1) : header[i + 1] \notin PlanSpace}

\* The smallest of a non-empty set of indexes.
First(indexes) == CHOOSE i \in indexes : \A j \in indexes : i <= j

\* The loop of checkBinaryFormat from 0-based index offset: TRUE when it
\* returns ErrBinaryFormat, that is when the first byte that is not
\* whitespace is not '{'.
firstByteIsNotBrace(header, offset) ==
    /\ nonSpaceFrom(header, offset) # {}
    /\ header[First(nonSpaceFrom(header, offset)) + 1] # "{"

\* Mutant: only the byte at the offset is looked at; whitespace passes.
checkBinaryFormat_FirstByteOnly(bytes) ==
    IF Len(ReadHeader(bytes)) = 0 THEN ErrRead
    ELSE IF At(ReadHeader(bytes), bomOffset(ReadHeader(bytes)) + 1)
              \notin PlanSpace \cup {"{", "EOF"}
    THEN ErrBinaryFormat
    ELSE ""

\* checkBinaryFormat on a regular file: the error it returns, "" for nil.
\* Reading an empty file gives n = 0 and io.EOF.
checkBinaryFormat(bytes) ==
    IF Len(ReadHeader(bytes)) = 0 THEN ErrRead
    ELSE IF firstByteIsNotBrace(ReadHeader(bytes), bomOffset(ReadHeader(bytes)))
    THEN ErrBinaryFormat
    ELSE ""

(***************************************************************************)
(* encoding/json, for documents without string escapes and with numbers    *)
(* that are runs of digits: the scanner, then the decoding into            *)
(* TerraformPlan.  Field names are matched exactly.                        *)
(***************************************************************************)
Fail == [ok |-> FALSE, val |-> [t |-> "none"], pos |-> 0]
Ok(v, pos) == [ok |-> TRUE, val |-> v, pos |-> pos]

JSONNull == [t |-> "null"]

\* The index of the first byte at or after i that is not whitespace, one
\* past the end when there is none.
skipSpace(d, i) == First({j \in i..(Len(d) + 1) : At(d, j) \notin PlanSpace})

\* A string, from the byte after its opening quote.
RECURSIVE scanString(_, _, _)
scanString(d, i, acc) ==
    IF At(d, i) \in {"EOF", "0x00", "0x01", "\\", "\t", "\r", "\n"} THEN Fail
    ELSE IF d[i] = "\"" THEN Ok([t |-> "string", s |-> acc], i + 1)
    ELSE scanString(d, i + 1, Append(acc, d[i]))

RECURSIVE scanDigits(_, _)
scanDigits(d, i) == IF At(d, i) \in Digits THEN scanDigits(d, i + 1) ELSE i

scanLiteral(d, i, literal, v) ==
    IF i + Len(literal) - 1 <= Len(d) /\ SubSeq(d, i, i + Len(literal) - 1) = literal
    THEN Ok(v, i + Len(literal))
    ELSE Fail

RECURSIVE scanValue(_, _)
RECURSIVE scanMembers(_, _, _)
RECURSIVE memberAfterKey(_, _, _)
RECURSIVE memberAfterValue(_, _, _, _)
RECURSIVE memberSeparator(_, _, _)
RECURSIVE scanItems(_, _, _)
RECURSIVE itemAfterValue(_, _, _)
RECURSIVE itemSeparator(_, _, _)

\* The JSON value that starts at index i.
scanValue(d, i) ==
    IF At(d, i) = "{"
    THEN IF At(d, skipSpace(d, i + 1)) = "}"
         THEN Ok([t |-> "object", members |-> <<>>], skipSpace(d, i + 1) + 1)
         ELSE scanMembers(d, skipSpace(d, i + 1), <<>>)
    ELSE IF At(d, i) = "["
    THEN IF At(d, skipSpace(d, i + 1)) = "]"
         THEN Ok([t |-> "array", items |-> <<>>], skipSpace(d, i + 1) + 1)
         ELSE scanItems(d, skipSpace(d, i + 1), <<>>)
    ELSE IF At(d, i) = "\"" THEN scanString(d, i + 1, <<>>)
    ELSE IF At(d, i) \in Digits THEN Ok([t |-> "number"], scanDigits(d, i))
    ELSE IF At(d, i) = "n" THEN scanLiteral(d, i, <<"n", "u", "l", "l">>, JSONNull)
    ELSE IF At(d, i) = "t" THEN scanLiteral(d, i, <<"t", "r", "u", "e">>, [t |-> "bool"])
    ELSE IF At(d, i) = "f"
    THEN scanLiteral(d, i, <<"f", "a", "l", "s", "e">>, [t |-> "bool"])
    ELSE Fail

scanMembers(d, i, acc) ==
    IF At(d, i) # "\"" THEN Fail
    ELSE memberAfterKey(d, acc, scanString(d, i + 1, <<>>))

memberAfterKey(d, acc, key) ==
    IF ~key.ok THEN Fail
    ELSE IF At(d, skipSpace(d, key.pos)) # ":" THEN Fail
    ELSE memberAfterValue(d, acc, key.val.s,
                          scanValue(d, skipSpace(d, skipSpace(d, key.pos) + 1)))

memberAfterValue(d, acc, key, v) ==
    IF ~v.ok THEN Fail
    ELSE memberSeparator(d, Append(acc, [key |-> key, value |-> v.val]),
                         skipSpace(d, v.pos))

memberSeparator(d, acc, i) ==
    IF At(d, i) = "," THEN scanMembers(d, skipSpace(d, i + 1), acc)
    ELSE IF At(d, i) = "}" THEN Ok([t |-> "object", members |-> acc], i + 1)
    ELSE Fail

scanItems(d, i, acc) == itemAfterValue(d, acc, scanValue(d, i))

itemAfterValue(d, acc, v) ==
    IF ~v.ok THEN Fail
    ELSE itemSeparator(d, Append(acc, v.val), skipSpace(d, v.pos))

itemSeparator(d, acc, i) ==
    IF At(d, i) = "," THEN scanItems(d, skipSpace(d, i + 1), acc)
    ELSE IF At(d, i) = "]" THEN Ok([t |-> "array", items |-> acc], i + 1)
    ELSE Fail

\* The value of an object's field: the last member with the key, null when
\* there is none.
RECURSIVE fieldFrom(_, _, _)
fieldFrom(members, key, i) ==
    IF i = 0 THEN JSONNull
    ELSE IF members[i].key = key THEN members[i].value
    ELSE fieldFrom(members, key, i - 1)

field(v, key) ==
    IF v.t = "object" THEN fieldFrom(v.members, key, Len(v.members)) ELSE JSONNull

\* Decoding into a Go string: null leaves "", a string sets it, anything
\* else is an UnmarshalTypeError.
stringOf(v) == IF v.t = "string" THEN v.s ELSE <<>>
stringErr(v) == v.t \notin {"string", "null"}

\* Decoding into a struct: null leaves it zero, anything but an object is
\* an UnmarshalTypeError.
structErr(v) == v.t \notin {"object", "null"}

\* Decoding into a slice.
itemsOf(v) == IF v.t = "array" THEN v.items ELSE <<>>
sliceErr(v) == v.t \notin {"array", "null"}

K_format_version == <<"f", "o", "r", "m", "a", "t", "_", "v", "e", "r", "s", "i", "o", "n">>
K_terraform_version ==
    <<"t", "e", "r", "r", "a", "f", "o", "r", "m", "_", "v", "e", "r", "s", "i", "o", "n">>
K_resource_changes ==
    <<"r", "e", "s", "o", "u", "r", "c", "e", "_", "c", "h", "a", "n", "g", "e", "s">>
K_address == <<"a", "d", "d", "r", "e", "s", "s">>
K_mode == <<"m", "o", "d", "e">>
K_type == <<"t", "y", "p", "e">>
K_change == <<"c", "h", "a", "n", "g", "e">>
K_actions == <<"a", "c", "t", "i", "o", "n", "s">>

\* ChangeDetail.Actions
decodeActions(v) == [i \in 1..Len(itemsOf(v)) |-> stringOf(itemsOf(v)[i])]

actionsErr(v) == sliceErr(v) \/ \E i \in 1..Len(itemsOf(v)) : stringErr(itemsOf(v)[i])

\* ResourceChange
decodeResourceChange(v) ==
    [Address |-> stringOf(field(v, K_address)),
     Mode |-> stringOf(field(v, K_mode)),
     Type |-> stringOf(field(v, K_type)),
     Change |-> [Actions |-> decodeActions(field(field(v, K_change), K_actions))]]

resourceChangeErr(v) ==
    \/ structErr(v)
    \/ stringErr(field(v, K_address))
    \/ stringErr(field(v, K_mode))
    \/ stringErr(field(v, K_type))
    \/ structErr(field(v, K_change))
    \/ actionsErr(field(field(v, K_change), K_actions))

\* TerraformPlan
decodePlan(v) ==
    [FormatVersion |-> stringOf(field(v, K_format_version)),
     TerraformVersion |-> stringOf(field(v, K_terraform_version)),
     ResourceChanges |->
        [i \in 1..Len(itemsOf(field(v, K_resource_changes))) |->
            decodeResourceChange(itemsOf(field(v, K_resource_changes))[i])]]

planErr(v) ==
    \/ structErr(v)
    \/ stringErr(field(v, K_format_version))
    \/ stringErr(field(v, K_terraform_version))
    \/ sliceErr(field(v, K_resource_changes))
    \/ \E i \in 1..Len(itemsOf(field(v, K_resource_changes))) :
          resourceChangeErr(itemsOf(field(v, K_resource_changes))[i])

\* decoder.Decode(&plan) on a scanned value.
decodeScanned(scanned_) ==
    IF ~scanned_.ok \/ planErr(scanned_.val)
    THEN [plan |-> None, err |-> ErrInvalidFormat]
    ELSE [plan |-> <<decodePlan(scanned_.val)>>, err |-> ""]

\* json.NewDecoder(file).Decode(&plan) from the start of the file: the first
\* JSON value of the stream; what follows it is not read.
Decode(bytes) == decodeScanned(scanValue(bytes, skipSpace(bytes, 1)))

\* Mutant: a plan without a format_version is returned as it is.
validateFormatVersion_Skipped(decoded) ==
    IF decoded.err # "" THEN [plan |-> None, err |-> decoded.err]
    ELSE decoded

\* ParsePlanFile after decoding: the format_version check.
validateFormatVersion(decoded) ==
    IF decoded.err # "" THEN [plan |-> None, err |-> decoded.err]
    ELSE IF decoded.plan[1].FormatVersion = <<>>
    THEN [plan |-> None, err |-> ErrMissingFormatVersion]
    ELSE decoded

\* A file name leads to no file, to a directory, or to a regular file.
PlanFile(kind, bytes) == [kind |-> kind, bytes |-> bytes]

\* ParsePlanFile
ParsePlanFile(file) ==
    IF file.kind = "missing" THEN [plan |-> None, err |-> ErrOpen]
    ELSE IF file.kind = "directory" THEN [plan |-> None, err |-> ErrRead]
    ELSE IF checkBinaryFormat(file.bytes) # ""
    THEN [plan |-> None, err |-> checkBinaryFormat(file.bytes)]
    ELSE validateFormatVersion(Decode(file.bytes))

\* The documents ParsePlanFile is checked on, without what comes before them.
PlanBodies ==
    {
      \* the empty plan of TestParsePlanFile
        <<"{", "\"", "f", "o", "r", "m", "a", "t", "_", "v", "e", "r", "s",
          "i", "o", "n", "\"", ":", "\"", "1", ".", "2", "\"", ",", "\"",
          "t", "e", "r", "r", "a", "f", "o", "r", "m", "_", "v", "e", "r",
          "s", "i", "o", "n", "\"", ":", "\"", "1", ".", "9", ".", "0",
          "\"", ",", "\"", "r", "e", "s", "o", "u", "r", "c", "e", "_",
          "c", "h", "a", "n", "g", "e", "s", "\"", ":", "[", "]", "}">>,
      \* a plan with one change
        <<"{", "\"", "f", "o", "r", "m", "a", "t", "_", "v", "e", "r", "s",
          "i", "o", "n", "\"", ":", "\"", "1", ".", "2", "\"", ",", "\"",
          "r", "e", "s", "o", "u", "r", "c", "e", "_", "c", "h", "a", "n",
          "g", "e", "s", "\"", ":", "[", "{", "\"", "a", "d", "d", "r",
          "e", "s", "s", "\"", ":", "\"", "a", ".", "b", "\"", ",", "\"",
          "m", "o", "d", "e", "\"", ":", "\"", "m", "a", "n", "a", "g",
          "e", "d", "\"", ",", "\"", "t", "y", "p", "e", "\"", ":", "\"",
          "a", "\"", ",", "\"", "c", "h", "a", "n", "g", "e", "\"", ":",
          "{", "\"", "a", "c", "t", "i", "o", "n", "s", "\"", ":", "[",
          "\"", "c", "r", "e", "a", "t", "e", "\"", "]", "}", "}", "]",
          "}">>,
      \* "JSON but not a terraform plan" of TestParsePlanFile
        <<"{", "\"", "s", "o", "m", "e", "\"", ":", " ", "\"", "j", "s",
          "o", "n", "\"", ",", " ", "\"", "b", "u", "t", "\"", ":", " ",
          "\"", "n", "o", "t", " ", "t", "e", "r", "r", "a", "f", "o", "r",
          "m", " ", "p", "l", "a", "n", "\"", "}">>,
      \* an empty format_version
        <<"{", "\"", "f", "o", "r", "m", "a", "t", "_", "v", "e", "r", "s",
          "i", "o", "n", "\"", ":", "\"", "\"", "}">>,
      \* a null format_version
        <<"{", "\"", "f", "o", "r", "m", "a", "t", "_", "v", "e", "r", "s",
          "i", "o", "n", "\"", ":", "n", "u", "l", "l", "}">>,
      \* the empty object
        <<"{", "}">>,
      \* "invalid JSON" of TestParsePlanFile
        <<"{", "i", "n", "v", "a", "l", "i", "d", " ", "j", "s", "o", "n">>,
      \* "binary plan file" of TestParsePlanFile, shortened
        <<"0x00", "0x01", "b", "i", "n">>,
      \* JSON values that are not objects
        <<"[", "]">>,
        <<"[", "{", "\"", "f", "o", "r", "m", "a", "t", "_", "v", "e", "r",
          "s", "i", "o", "n", "\"", ":", "\"", "1", ".", "2", "\"", "}",
          "]">>,
        <<"n", "u", "l", "l">>,
        <<"1", "2">>,
      \* fields of the wrong type
        <<"{", "\"", "f", "o", "r", "m", "a", "t", "_", "v", "e", "r", "s",
          "i", "o", "n", "\"", ":", "1", "2", "}">>,
        <<"{", "\"", "r", "e", "s", "o", "u", "r", "c", "e", "_", "c", "h",
          "a", "n", "g", "e", "s", "\"", ":", "{", "}", "}">>,
      \* bytes after the plan
        <<"{", "\"", "f", "o", "r", "m", "a", "t", "_", "v", "e", "r", "s",
          "i", "o", "n", "\"", ":", "\"", "1", ".", "2", "\"", "}", "x">>,
      \* bytes before the plan
        <<"x", "{", "\"", "f", "o", "r", "m", "a", "t", "_", "v", "e", "r",
          "s", "i", "o", "n", "\"", ":", "\"", "1", ".", "2", "\"", "}">>,
      \* a truncated plan
        <<"{", "\"", "f", "o", "r", "m", "a", "t", "_", "v", "e", "r", "s",
          "i", "o", "n", "\"", ":", "\"", "1", ".", "2", "\"">>,
      \* nothing
        <<>>
    }

\* A run of n whitespace bytes.
SpaceRun(n) == [i \in 1..n |-> <<" ", "\n", "\t", "\r">>[(i % 4) + 1]]

\* What comes before the body: nothing or the byte-order mark, then
\* whitespace: none, a little, or enough to reach the end of the header
\* buffer with and without the byte-order mark.
PlanPrefixes ==
    { bom \o SpaceRun(n) :
        bom \in {<<>>, ByteOrderMark},
        n \in {0, 1, 2, headerBufferSize - 3, headerBufferSize} }

PlanFiles ==
    { PlanFile("regular", prefix \o body) : prefix \in PlanPrefixes, body \in PlanBodies }
    \cup { PlanFile("missing", <<>>), PlanFile("directory", <<>>) }

(***************************************************************************)
(* SpecParse: one call of ParsePlanFile.                                   *)
(***************************************************************************)
\* plan, err := drift.ParsePlanFile(planFile)
ParseCall ==
    /\ parsed = None
    /\ \E file \in PlanFiles :
          /\ planFile' = <<file>>
          /\ parsed' = <<ParsePlanFile(file)>>
    /\ UNCHANGED <<cfg, infos, report, sevCall, cmp, criticalResourceTypes, plan, analysis,
                   fsys, scanned, rendered, merged, cmdErr, exitStatus, combined, invocation, project, generated>>

NextParse == ParseCall

SpecParse == InitIdle /\ [][NextParse]_vars

(***************************************************************************)
(* Properties of the plan parser (SpecParse).                              *)
(***************************************************************************)
\* The document without its byte-order mark, if it starts with one.
AfterBOM(bytes) ==
    IF Len(bytes) >= 3 /\ SubSeq(bytes, 1, 3) = ByteOrderMark
    THEN SubSeq(bytes, 4, Len(bytes)) ELSE bytes

\* Where the first non-whitespace byte of the document is, counting the
\* byte-order mark; 0 when there is none.
FirstByteIndex(bytes) ==
    IF \E i \in 1..Len(bytes) : i > Len(bytes) - Len(AfterBOM(bytes)) /\ bytes[i] \notin PlanSpace
    THEN CHOOSE i \in 1..Len(bytes) :
            /\ i > Len(bytes) - Len(AfterBOM(bytes)) /\ bytes[i] \notin PlanSpace
            /\ \A j \in (Len(bytes) - Len(AfterBOM(bytes)) + 1)..(i - 1) : bytes[j] \in PlanSpace
    ELSE 0

RegularPlanFile == parsed # None /\ planFile[1].kind = "regular"

\* C13 as claimed: a document whose first non-whitespace byte, after an
\* optional byte-order mark, is not '{' fails with the binary-format error.
C13_NotBraceIsBinaryFormat ==
    RegularPlanFile /\ FirstByteIndex(planFile[1].bytes) # 0
        /\ planFile[1].bytes[FirstByteIndex(planFile[1].bytes)] # "{"
    => parsed[1].err = ErrBinaryFormat

\* C13 amended: when that byte is among the first headerBufferSize bytes of
\* the file, the document fails with the binary-format error if the byte is
\* not '{', and with another error or none if it is; a document whose first
\* headerBufferSize bytes hold no such byte does not fail with the
\* binary-format error.
C13_NotBraceInHeaderIsBinaryFormat ==
    RegularPlanFile =>
        LET at == FirstByteIndex(planFile[1].bytes) IN
        parsed[1].err = ErrBinaryFormat
            <=> /\ at \in 1..headerBufferSize
                /\ planFile[1].bytes[at] # "{"

\* A byte-order mark, whitespace, then a byte that is not '{'.
C13_Witness ==
    /\ RegularPlanFile
    /\ Len(AfterBOM(planFile[1].bytes)) < Len(planFile[1].bytes)
    /\ FirstByteIndex(planFile[1].bytes) > 4
    /\ planFile[1].bytes[FirstByteIndex(planFile[1].bytes)] # "{"
    /\ parsed[1].err = ErrBinaryFormat
    /\ parsed[1].plan = None

\* The document is one JSON value with whitespace around it.
WholeValue(bytes) ==
    /\ scanValue(bytes, skipSpace(bytes, 1)).ok
    /\ skipSpace(bytes, scanValue(bytes, skipSpace(bytes, 1)).pos) = Len(bytes) + 1

ValueOf(bytes) == scanValue(bytes, skipSpace(bytes, 1)).val

HasMember(v, key) == \E i \in 1..Len(v.members) : v.members[i].key = key

Render(style, text) == [text |-> text, style |-> style]

\* A cell written without styling.
Plain(text) == Render("", text)

colorizeAction(useColor, action) ==
    IF ~useColor THEN Plain(action)
    ELSE CASE action = <<"create">> -> Render("2", action)
           [] action = <<"delete">> -> Render("1", action)
           [] action = <<"replace">> -> Render("3", action)
           [] action = <<"update">> -> Render("6", action)
           [] action = <<"read">> -> Render("4", action)
           [] OTHER -> Plain(action)

colorizeSeverity(useColor, severity) ==
    IF ~useColor THEN Plain(severity)
    ELSE CASE severity = SeverityCritical -> Render("bold 1", severity)
           [] severity = SeverityHigh -> Render("1", severity)
           [] severity = SeverityMedium -> Render("3", severity)
           [] severity = SeverityLow -> Render("2", severity)
           [] OTHER -> Plain(severity)

\* splitModuleAddress on the module addresses of the plans: the dot-separated
\* parts of the address, empty parts dropped.
splitModuleAddress(addr) ==
    CASE addr = "" -> <<>>
      [] addr = "module.vpc" -> <<"module", "vpc">>
      [] OTHER -> <<addr>>

\* extractModuleName: the parts other than "module", joined; first and last
\* only when there are more than two.
extractModuleName(moduleAddr) ==
    LET parts == SelectSeq(splitModuleAddress(moduleAddr), LAMBDA p : p # "module") IN
    IF Len(parts) = 0 THEN <<"root">>
    ELSE IF Len(parts) > 2 THEN <<parts[1], "...", parts[Len(parts)]>>
    ELSE IF Len(parts) = 2 THEN <<parts[1], ".", parts[2]>>
    ELSE parts

\* One row of buildResourceData: name, type, action, severity.
resourceRow(useColor, rc) ==
    << IF rc.ModuleAddress # ""
         THEN extractModuleName(rc.ModuleAddress) \o <<".">> \o rc.Name
         ELSE rc.Name,
       rc.Type,
       colorizeAction(useColor, rc.ActionString),
       colorizeSeverity(useColor, rc.Severity) >>

\* PlanFormatter.buildResourceData: one row per resource, in the order given.
buildResourceData(useColor, resources) ==
    [i \in 1..Len(resources) |-> resourceRow(useColor, resources[i])]

\* The header record of the CSV output.
CSVHeader == <<"Address", "Type", "Name", "Provider", "Action", "Severity">>

\* One record of the CSV output.
csvRecord(rc) ==
    <<rc.Address, rc.Type, rc.Name, rc.Provider, rc.ActionString, rc.Severity>>

\* PlanFormatter.formatCSV: the records after the comment lines; the header,
\* then one record per resource change in the order of the analysis.
formatCSV(a) ==
    <<CSVHeader>> \o [i \in 1..Len(a.ResourceChanges) |-> csvRecord(a.ResourceChanges[i])]

\* PlanFormatter.formatTable: the rows of the resource table; no table is
\* written for an analysis without resource changes.
formatTable(useColor, a) ==
    IF Len(a.ResourceChanges) = 0 THEN <<>>
    ELSE buildResourceData(useColor, a.ResourceChanges)

FormatJSON == "json"
FormatCSV == "csv"
FormatTable == "table"

\* PlanFormatter.Format: the rows written for the format asked for.
PlanFormat(useColor, a, format) ==
    CASE format = FormatCSV -> [format |-> format, useColor |-> useColor, rows |-> formatCSV(a)]
      [] format = FormatTable -> [format |-> format, useColor |-> useColor, rows |-> formatTable(useColor, a)]

(***************************************************************************)
(* SpecPlanFormat: a plan is analyzed and the analysis is formatted once.  *)
(***************************************************************************)
\* formatter := NewPlanFormatter(useColor); formatter.Format(analysis, format, w)
PlanFormatCall ==
    /\ analysis # None
    /\ rendered = None
    /\ \E useColor \in BOOLEAN, format \in {FormatCSV, FormatTable} :
          rendered' = <<PlanFormat(useColor, analysis[1], format)>>
    /\ UNCHANGED <<cfg, infos, report, sevCall, cmp, criticalResourceTypes, plan, analysis, fsys, scanned, planFile, parsed, merged, cmdErr, exitStatus, combined, invocation, project, generated>>

NextPlanFormat == PlanAnalyzeCall \/ PlanFormatCall

SpecPlanFormat == InitPlan /\ [][NextPlanFormat]_vars

(***************************************************************************)
(* Claim C15                                                               *)
(***************************************************************************)
\* The place of a severity in the order critical, high, medium, low.
SeverityRank(severity) ==
    CASE severity = SeverityCritical -> 0
      [] severity = SeverityHigh -> 1
      [] severity = SeverityMedium -> 2
      [] severity = SeverityLow -> 3
      [] OTHER -> 4

\* The resources in the order of their severity, resources of one severity
\* in the order they have in the input.
Before(resources, i, j) ==
    \/ SeverityRank(resources[i].Severity) < SeverityRank(resources[j].Severity)
    \/ /\ SeverityRank(resources[i].Severity) = SeverityRank(resources[j].Severity)
       /\ i < j

PlaceOf(resources, i) == 1 + Cardinality({j \in 1..Len(resources) : Before(resources, j, i)})

BySeverity(resources) ==
    [k \in 1..Len(resources) |->
        resources[CHOOSE i \in 1..Len(resources) : PlaceOf(resources, i) = k]]

\* The resource rows a formatter wrote: the table's rows, or the CSV records
\* after the header.
DataRows == IF rendered[1].format = FormatCSV THEN Tail(rendered[1].rows) ELSE rendered[1].rows

RowsOf(resources) ==
    IF rendered[1].format = FormatCSV
    THEN [i \in 1..Len(resources) |-> csvRecord(resources[i])]
    ELSE [i \in 1..Len(resources) |-> resourceRow(rendered[1].useColor, resources[i])]

\* C15: the resource rows of the table and of the CSV output are the rows of
\* the analysis's resource changes in the order critical, high, medium, low,
\* rows of one severity in their input order.
C15_RowsOrderedBySeverity ==
    rendered # None =>
        DataRows = RowsOf(BySeverity(analysis[1].ResourceChanges))

(***************************************************************************)
(* Formatter (version_formatter.go): the CSV output of a drift report.     *)
(***************************************************************************)
severityNone == "none"
severityMinor == "minor"
severityMajor == "major"

\* The severity column of formatCSV for a drift status.
csvSeverity(status) ==
    CASE status = StatusMajorDrift -> severityMajor
      [] status = StatusMinorDrift -> severityMinor
      [] OTHER -> severityNone

DriftCSVHeader ==
    <<"File Path", "Component Type", "Component Name", "Expected Version",
      "Actual Version", "Drift Status", "Severity">>

\* The row of a record's core-tool version.
terraformRow(record) ==
    <<record.FilePath, "terraform", "terraform", record.TerraformExpected,
      record.TerraformActual, record.TerraformDriftStatus,
      csvSeverity(record.TerraformDriftStatus)>>

\* The row of one plugin entry of a record.
providerRow(record, pd) ==
    <<record.FilePath, "provider", pd.Name, pd.Expected, pd.Actual,
      pd.DriftStatus, csvSeverity(pd.DriftStatus)>>

\* The rows of one record: the core-tool row, then one row per entry of
\* record.Providers in the order of that slice.
recordRows(record) ==
    <<terraformRow(record)>>
    \o [i \in 1..Len(record.Providers) |-> providerRow(record, record.Providers[i])]

\* The loop of formatCSV over report.Records, from position i on.
RECURSIVE recordsRows(_, _)
recordsRows(records, i) ==
    IF i > Len(records) THEN <<>>
    ELSE recordRows(records[i]) \o recordsRows(records, i + 1)

\* Formatter.formatCSV: the header, then the rows of the records in the
\* order of report.Records.
driftFormatCSV(rep) == <<DriftCSVHeader>> \o recordsRows(rep.Records, 1)

\* Formatter.Format for the CSV format.
DriftFormat(rep, format) ==
    CASE format = FormatCSV -> [format |-> format, rows |-> driftFormatCSV(rep)]

(***************************************************************************)
(* SpecDriftFormat: the files of a scan are analyzed and the report is     *)
(* written as CSV.                                                         *)
(***************************************************************************)
\* formatter := NewFormatter(useColor); formatter.Format(report, FormatCSV, w)
DriftFormatCall ==
    /\ report # None
    /\ rendered = None
    /\ \E format \in {FormatCSV} :
          rendered' = <<DriftFormat(report[1], format)>>
    /\ UNCHANGED <<cfg, infos, report, sevCall, cmp, criticalResourceTypes, plan, analysis, fsys, scanned, planFile, parsed, merged, cmdErr, exitStatus, combined, invocation, project, generated>>

NextDriftFormat == AnalyzeCall \/ DriftFormatCall

SpecDriftFormat == InitDrift /\ [][NextDriftFormat]_vars

(***************************************************************************)
(* Claim C16                                                               *)
(***************************************************************************)
\* The paths PathOf(i) in lexicographic order: by the number of the file.
PathLess(p, q) == p[2] < q[2]

\* Every way Go may range over the Providers maps of the files of a scan.
RECURSIVE AllOrders(_)
AllOrders(versionInfos) ==
    IF Len(versionInfos) = 0 THEN {<<>>}
    ELSE { <<o>> \o rest : o \in RangeOrders(DOMAIN Head(versionInfos).Providers),
                          rest \in AllOrders(Tail(versionInfos)) }

\* C16: the CSV output of a drift report starts with the header row, its
\* detail rows are sorted by file path, and the rows written are the same
\* whatever order Go ranges over the maps in.
C16_DriftCSVRowsSortedAndDeterministic ==
    rendered # None =>
        /\ rendered[1].rows[1] = DriftCSVHeader
        /\ \A i, j \in 2..Len(rendered[1].rows) :
              i < j => ~PathLess(rendered[1].rows[j][1], rendered[1].rows[i][1])
        /\ \A orders \in AllOrders(infos[1]) :
              rendered[1].rows =
                  driftFormatCSV(Analyze(cfg[1], <<"scan", "root">>, infos[1], orders))

(***************************************************************************)
(* critical_resources.go: MergeCriticalResources                           *)
(***************************************************************************)
\* Bound on the length of the two lists handed to MergeCriticalResources.
MaxResources == 3

\* The first loop: a default is appended unless it was seen.
RECURSIVE addDefaults(_, _, _)
addDefaults(defaults, i, merged_) ==
    IF i > Len(defaults) THEN merged_
    ELSE addDefaults(defaults, i + 1,
             IF ~containsAction(merged_, defaults[i])
             THEN Append(merged_, defaults[i]) ELSE merged_)

\* Mutant: the second loop also takes empty entries.
RECURSIVE addUserDefined_KeepsEmpty(_, _, _)
addUserDefined_KeepsEmpty(userDefined, i, merged_) ==
    IF i > Len(userDefined) THEN merged_
    ELSE addUserDefined_KeepsEmpty(userDefined, i + 1,
             IF ~containsAction(merged_, userDefined[i])
             THEN Append(merged_, userDefined[i]) ELSE merged_)

\* The second loop: a user entry is appended unless it is empty or was seen.
RECURSIVE addUserDefined(_, _, _)
addUserDefined(userDefined, i, merged_) ==
    IF i > Len(userDefined) THEN merged_
    ELSE addUserDefined(userDefined, i + 1,
             IF userDefined[i] # "" /\ ~containsAction(merged_, userDefined[i])
             THEN Append(merged_, userDefined[i]) ELSE merged_)

\* seen[r] holds exactly for the entries of merged, so membership in merged
\* stands for the seen map.
MergeCriticalResources(defaults, userDefined) ==
    addUserDefined(userDefined, 1, addDefaults(defaults, 1, <<>>))

\* Resource types of the two lists: a default one, two of the user's own,
\* and the empty string of an empty list entry in the configuration file.
ResourceNames == {"", "aws_s3_bucket", "custom_db", "custom_queue"}

(***************************************************************************)
(* SpecMerge: one call of MergeCriticalResources.                          *)
(***************************************************************************)
\* merged := MergeCriticalResources(defaults, userDefined)
MergeCall ==
    /\ merged = None
    /\ \E defaults \in SeqsUpTo(ResourceNames, MaxResources),
          userDefined \in SeqsUpTo(ResourceNames, MaxResources) :
          merged' = <<[defaults |-> defaults,
                       userDefined |-> userDefined,
                       result |-> MergeCriticalResources(defaults, userDefined)]>>
    /\ UNCHANGED <<cfg, infos, report, sevCall, cmp, criticalResourceTypes, plan, analysis, fsys, scanned, planFile, parsed, rendered, cmdErr, exitStatus, combined, invocation, project, generated>>

NextMerge == MergeCall

SpecMerge == InitIdle /\ [][NextMerge]_vars

(***************************************************************************)
(* Claim C17                                                               *)
(***************************************************************************)
Elems(s) == {s[i] : i \in 1..Len(s)}

\* The place of the first occurrence of x in s.
FirstIndex(s, x) == CHOOSE i \in 1..Len(s) : s[i] = x /\ \A j \in 1..(i - 1) : s[j] # x

\* The entries of part follow each other as their first occurrences in source do.
InOrderOf(part, source) ==
    \A i, j \in 1..Len(part) :
        i < j => FirstIndex(source, part[i]) < FirstIndex(source, part[j])

\* The user entries the merge adds: non-empty and not among the defaults.
NewUserEntries(defaults, userDefined) == (Elems(userDefined) \ {""}) \ Elems(defaults)

NumDefaults == Cardinality(Elems(merged[1].defaults))

\* C17: the merged list has no entry twice; it starts with the defaults in
\* default order, and goes on with the non-empty user entries that are not
\* defaults, in user order.
C17_MergeDefaultsFirstNoDuplicates ==
    merged # None =>
        LET defaults == merged[1].defaults
            userDefined == merged[1].userDefined
            result == merged[1].result
            head == SubSeq(result, 1, NumDefaults)
            rest == SubSeq(result, NumDefaults + 1, Len(result))
        IN /\ \A i, j \in 1..Len(result) : i # j => result[i] # result[j]
           /\ Len(result) >= NumDefaults
           /\ Elems(head) = Elems(defaults)
           /\ InOrderOf(head, defaults)
           /\ Elems(rest) = NewUserEntries(defaults, userDefined)
           /\ InOrderOf(rest, userDefined)

\* A merge where the user list repeats a default, has an empty entry, and
\* adds an entry of its own.
C17_Witness ==
    /\ merged # None
    /\ merged[1].defaults = <<"aws_s3_bucket">>
    /\ \E u \in Elems(merged[1].userDefined) : u \in Elems(merged[1].defaults)
    /\ "" \in Elems(merged[1].userDefined)
    /\ merged[1].result = <<"aws_s3_bucket", "custom_queue">>

(***************************************************************************)
(* The command line: cmd/errors.go, cmd/drift.go (drift plan) and main.go. *)
(* A Go error is a record; NilError is the nil error.                      *)
(***************************************************************************)
NilError == [kind |-> "nil", Code |-> 0, Message |-> ""]

\* An error that is not an ExitError (errors.New, fmt.Errorf).
Errorf(message) == [kind |-> "error", Code |-> 0, Message |-> message]

\* NewExitError
NewExitError(code, message) == [kind |-> "ExitError", Code |-> code, Message |-> message]

ErrPlanFileRequired == Errorf("plan file is required")
ErrPlanFileNotFound == Errorf("plan file not found")
ErrUnsupportedPlanFormat == Errorf("unsupported format")

\* os.Stat on the path of an invocation: "ok", "notexist", or another failure.
StatOK == "ok"
StatNotExist == "notexist"
StatDenied == "denied"

\* The error of PlanFormatter.Format for a format.
planFormatErr(format) ==
    IF format \in {FormatJSON, FormatCSV, FormatTable} THEN NilError
    ELSE ErrUnsupportedPlanFormat

\* The end of runDriftPlan: an ExitError for a non-zero exit code.
planExitError(a) ==
    IF PlanExitCode(a) # 0 THEN NewExitError(PlanExitCode(a), "") ELSE NilError

\* runDriftPlan from the analysis on: nil without changes, the error of the
\* formatter, or the ExitError of the analysis's exit code.
reportPlan(a, format) ==
    IF ~a.HasChanges THEN NilError
    ELSE IF planFormatErr(format) # NilError THEN Errorf("failed to format output")
    ELSE planExitError(a)

\* One run of drift plan: the --plan-file and --format flags, what os.Stat
\* says about the file, and what ParsePlanFile returns for it (<<>> for an
\* error, <<plan>> for a plan).
PlanInvocation(planFileFlag, stat, parseResult, format) ==
    [planFile |-> planFileFlag, stat |-> stat, parsed |-> parseResult, format |-> format]

\* runDriftPlan: the error returned, and the analysis if one was made.
runDriftPlan(types, inv) ==
    IF inv.planFile = "" THEN [err |-> ErrPlanFileRequired, analysis |-> None]
    ELSE IF inv.stat = StatNotExist THEN [err |-> ErrPlanFileNotFound, analysis |-> None]
    ELSE IF inv.stat # StatOK THEN [err |-> Errorf("failed to access plan file"), analysis |-> None]
    ELSE IF inv.parsed = <<>> THEN [err |-> Errorf("failed to parse plan file"), analysis |-> None]
    ELSE [err |-> reportPlan(PlanAnalyze(types, inv.parsed), inv.format),
          analysis |-> <<PlanAnalyze(types, inv.parsed)>>]

\* main: cmd.Execute() hands back the error of the command; any error ends
\* the process with os.Exit(1), none lets main return.
exitStatusOf(err) == IF err # NilError THEN 1 ELSE 0

\* The runs of drift plan: each failure before the analysis, and every plan
\* with a supported and an unsupported format.
PlanInvocations ==
    { PlanInvocation("", StatOK, <<>>, FormatTable),
      PlanInvocation("tfplan.json", StatNotExist, <<>>, FormatTable),
      PlanInvocation("tfplan.json", StatDenied, <<>>, FormatTable),
      PlanInvocation("tfplan.json", StatOK, <<>>, FormatTable) }
    \cup { PlanInvocation("tfplan.json", StatOK, p, f) :
             p \in PlanPointers \ {<<>>}, f \in {FormatTable, "yaml"} }

(***************************************************************************)
(* SpecCmdPlan: `tfskel drift plan` runs once and the process ends.        *)
(***************************************************************************)
\* rootCmd.Execute() runs runDriftPlan and hands its error to main.
DriftPlanCmd ==
    /\ cmdErr = None
    /\ \E inv \in PlanInvocations :
          /\ plan' = <<inv.parsed>>
          /\ analysis' = runDriftPlan(criticalResourceTypes, inv).analysis
          /\ cmdErr' = <<runDriftPlan(criticalResourceTypes, inv).err>>
    /\ UNCHANGED <<cfg, infos, report, sevCall, cmp, criticalResourceTypes, fsys, scanned, planFile, parsed, rendered, merged, exitStatus, combined, invocation, project, generated>>

\* main after cmd.Execute() returned.
MainExit ==
    /\ cmdErr # None
    /\ exitStatus = None
    /\ exitStatus' = <<exitStatusOf(cmdErr[1])>>
    /\ UNCHANGED <<cfg, infos, report, sevCall, cmp, criticalResourceTypes, plan, analysis, fsys, scanned, planFile, parsed, rendered, merged, cmdErr, combined, invocation, project, generated>>

NextCmdPlan == DriftPlanCmd \/ MainExit

SpecCmdPlan == InitPlan /\ [][NextCmdPlan]_vars

(***************************************************************************)
(* Claim C19                                                               *)
(***************************************************************************)
\* C19: when the command returned an ExitError with code c the process
\* exits with status c; a plan analysis that was written out exits 0 without
\* changes, 2 with a deletion or a replacement, and 1 otherwise.
C19_ExitErrorCodeIsExitStatus ==
    exitStatus # None =>
        /\ cmdErr[1].kind = "ExitError" => exitStatus[1] = cmdErr[1].Code
        /\ analysis # None /\ cmdErr[1].kind # "error" =>
              exitStatus[1] =
                  IF analysis[1].TotalChanges = 0 THEN 0
                  ELSE IF analysis[1].Deletions > 0 \/ analysis[1].Replacements > 0 THEN 2
                  ELSE 1

(***************************************************************************)
(* cmd/drift_versions.go: drift all                                        *)
(***************************************************************************)
statusCritical == "critical"
statusWarning == "warning"
statusClean == "clean"

ErrInvalidSkipFlags == Errorf("invalid flags: cannot skip all analyses")
ErrPathDoesNotExist == Errorf("path does not exist")
ErrPathNotDirectory == Errorf("path is not a directory")
ErrUnsupportedCombinedFormat == Errorf("unsupported format")

\* validateAllFlags: the effective skip values, or the error.
validateAllFlags(allSkipVersions, allSkipPlan, allPlanFile) ==
    IF allSkipVersions /\ allSkipPlan
    THEN [skipVersion |-> FALSE, skipPlan |-> FALSE, err |-> ErrInvalidSkipFlags]
    ELSE [skipVersion |-> allSkipVersions,
          skipPlan |-> allSkipPlan \/ allPlanFile = "",
          err |-> NilError]

\* The zero VersionDriftSummary.
emptyVersionDriftSummary ==
    [TotalFiles |-> 0, FilesWithDrift |-> 0, MinorDrift |-> 0, MajorDrift |-> 0,
     HasDrift |-> FALSE]

\* The summary runVersionAnalysis makes of a report.
versionDriftSummary(rep) ==
    [TotalFiles |-> rep.TotalFiles,
     FilesWithDrift |-> rep.FilesWithDrift,
     MinorDrift |-> rep.Summary.FilesWithMinorDrift,
     MajorDrift |-> rep.Summary.FilesWithMajorDrift,
     HasDrift |-> rep.FilesWithDrift > 0]

\* The scan of one run of drift all: what os.Stat says about --path ("notdir"
\* for a path that is no directory), whether the configuration loads, and
\* what ScanDirectory returns (<<>> for an error, <<versionInfos>> otherwise)
\* with the range orders of this run.
StatNotDir == "notdir"

VersionRun(stat, config, scan, orders) ==
    [stat |-> stat, config |-> config, scan |-> scan, orders |-> orders]

versionResult(summary, exitCode, err, rep) ==
    [summary |-> summary, exitCode |-> exitCode, err |-> err, report |-> rep]

\* runVersionAnalysis
runVersionAnalysis(run) ==
    IF run.stat = StatNotExist THEN versionResult(None, 0, ErrPathDoesNotExist, None)
    ELSE IF run.stat = StatDenied
    THEN versionResult(None, 0, Errorf("failed to access path"), None)
    ELSE IF run.stat = StatNotDir THEN versionResult(None, 0, ErrPathNotDirectory, None)
    ELSE IF run.config = None
    THEN versionResult(None, 0, Errorf("failed to load configuration"), None)
    ELSE IF run.scan = <<>>
    THEN versionResult(None, 0, Errorf("failed to scan directory"), None)
    ELSE IF Len(run.scan[1]) = 0
    THEN versionResult(<<emptyVersionDriftSummary>>, 0, NilError, None)
    ELSE versionResult(
             <<versionDriftSummary(Analyze(run.config[1], <<"scan", "root">>, run.scan[1], run.orders))>>,
             ExitCode(Analyze(run.config[1], <<"scan", "root">>, run.scan[1], run.orders)),
             NilError,
             <<Analyze(run.config[1], <<"scan", "root">>, run.scan[1], run.orders)>>)

\* A CombinedAnalysis together with the exit code of the step that made it.
step(c, exitCode) == [combined |-> c, exitCode |-> exitCode]

\* executeVersionAnalysis, given what runVersionAnalysis returned.
executeVersionAnalysis(c, res) ==
    IF res.err # NilError
    THEN step([c EXCEPT !.HasIssues = TRUE, !.OverallStatus = statusCritical], 1)
    ELSE step([c EXCEPT
                 !.VersionDrift = res.summary,
                 !.HasIssues = IF res.summary[1].HasDrift THEN TRUE ELSE @,
                 !.OverallStatus =
                     IF ~res.summary[1].HasDrift THEN @
                     ELSE IF res.summary[1].MajorDrift > 0 THEN statusCritical
                     ELSE IF @ = statusClean THEN statusWarning
                     ELSE @],
              res.exitCode)

\* The plan of one run of drift all: what os.Stat says about --plan-file and
\* what ParsePlanFile returns for it.
PlanRun(stat, parseResult) == [stat |-> stat, parsed |-> parseResult]

planResult(a, exitCode, err) == [analysis |-> a, exitCode |-> exitCode, err |-> err]

\* runPlanAnalysisInternal
runPlanAnalysisInternal(types, run) ==
    IF run.stat = StatNotExist THEN planResult(None, 1, ErrPlanFileNotFound)
    ELSE IF run.stat # StatOK THEN planResult(None, 1, Errorf("failed to access plan file"))
    ELSE IF run.parsed = <<>> THEN planResult(None, 1, Errorf("failed to parse plan file"))
    ELSE planResult(<<PlanAnalyze(types, run.parsed)>>,
                    PlanExitCode(PlanAnalyze(types, run.parsed)),
                    NilError)

\* executePlanAnalysis, given what runPlanAnalysisInternal returned.
executePlanAnalysis(c, res) ==
    IF res.err # NilError
    THEN step([c EXCEPT !.HasIssues = TRUE, !.OverallStatus = statusCritical], res.exitCode)
    ELSE step([c EXCEPT
                 !.PlanAnalysis = res.analysis,
                 !.HasIssues = IF res.analysis[1].HasChanges THEN TRUE ELSE @,
                 !.OverallStatus =
                     IF ~res.analysis[1].HasChanges THEN @
                     ELSE IF res.analysis[1].Deletions > 0 \/ res.analysis[1].Replacements > 0
                     THEN statusCritical
                     ELSE IF @ # statusCritical THEN statusWarning
                     ELSE @],
              res.exitCode)

\* The larger of the exit code so far and the one of a step.
higher(exitCode, s) == step(s.combined, IF s.exitCode > exitCode THEN s.exitCode ELSE exitCode)

\* The second half of executeAnalyses.
executePlanStep(s, skipPlan, planRes) ==
    IF skipPlan THEN s ELSE higher(s.exitCode, executePlanAnalysis(s.combined, planRes))

\* executeAnalyses: the version analysis, then the plan analysis, each unless
\* skipped; the exit code is the highest of the two.
executeAnalyses(c, skipVersion, skipPlan, versionRes, planRes) ==
    executePlanStep(
        IF skipVersion THEN step(c, 0) ELSE higher(0, executeVersionAnalysis(c, versionRes)),
        skipPlan, planRes)

\* The error of formatCombinedAnalysis for a format.
combinedFormatErr(format) ==
    IF format \in {"json", "csv", "table"} THEN NilError ELSE ErrUnsupportedCombinedFormat

\* The CombinedAnalysis runDriftAll starts from.
newCombinedAnalysis ==
    [VersionDrift |-> None, PlanAnalysis |-> None, OverallStatus |-> statusClean,
     HasIssues |-> FALSE]

\* The end of runDriftAll, after executeAnalyses.
reportAll(s, format) ==
    [combined |-> <<s.combined>>,
     err |-> IF combinedFormatErr(format) # NilError THEN Errorf("failed to format output")
             ELSE IF s.exitCode # 0 THEN NewExitError(s.exitCode, "")
             ELSE NilError]

\* One run of drift all: its flags and what the two analyses meet.
AllInvocation(skipVersions, skipPlan, allPlanFile, format, versionRun, planRun) ==
    [allSkipVersions |-> skipVersions, allSkipPlan |-> skipPlan,
     allPlanFile |-> allPlanFile, allFormat |-> format,
     versions |-> versionRun, plan |-> planRun]

\* runDriftAll, with the flags as validateAllFlags returned them.
runDriftAllWith(types, inv, flags) ==
    IF flags.err # NilError THEN [combined |-> None, err |-> flags.err]
    ELSE reportAll(
             executeAnalyses(newCombinedAnalysis, flags.skipVersion, flags.skipPlan,
                             runVersionAnalysis(inv.versions),
                             runPlanAnalysisInternal(types, inv.plan)),
             inv.allFormat)

\* runDriftAll: the CombinedAnalysis written and the error returned.
runDriftAll(types, inv) ==
    runDriftAllWith(types, inv,
        validateAllFlags(inv.allSkipVersions, inv.allSkipPlan, inv.allPlanFile))

\* The files of the scans of drift all: a file in sync with the first
\* configuration, one a minor and one a major step away, and one that
\* parsed with errors.
AllVersionFiles ==
    { in \in VersionInputs :
        in.data.Providers = <<>> /\ in.data.TerraformVersion # <<>> }

VersionRuns ==
    { VersionRun(StatNotExist, None, <<>>, <<>>),
      VersionRun(StatDenied, None, <<>>, <<>>),
      VersionRun(StatNotDir, None, <<>>, <<>>),
      VersionRun(StatOK, None, <<>>, <<>>),
      VersionRun(StatOK, <<CHOOSE c \in Configs : c.Provider = None>>, <<>>, <<>>) }
    \cup { VersionRun(StatOK, <<c>>, <<WithPaths(DataOf(ins))>>, OrdersOf(ins)) :
             c \in Configs, ins \in SeqsUpTo(AllVersionFiles, MaxFiles) }

\* The changes of the plans of drift all: an addition, a deletion, a no-op.
AllChangeShapes ==
    { ChangeShape("managed", "aws_instance", "", a) :
        a \in {<<"create">>, <<"delete">>, <<"no-op">>} }

PlanRuns ==
    { PlanRun(StatNotExist, <<>>), PlanRun(StatDenied, <<>>), PlanRun(StatOK, <<>>) }
    \cup { PlanRun(StatOK, <<PlanOf(shapes)>>) : shapes \in SeqsUpTo(AllChangeShapes, MaxChanges) }

\* The flags of drift all: both analyses, one of them skipped, both skipped,
\* no plan file, and a format the command does not know.
AllFlags ==
    { <<FALSE, FALSE, "tfplan.json", "table">>,
      <<TRUE, FALSE, "tfplan.json", "table">>,
      <<FALSE, TRUE, "tfplan.json", "csv">>,
      <<TRUE, TRUE, "tfplan.json", "table">>,
      <<FALSE, FALSE, "", "json">>,
      <<FALSE, FALSE, "tfplan.json", "yaml">> }

AllInvocations ==
    { AllInvocation(f[1], f[2], f[3], f[4], v, p) :
        f \in AllFlags, v \in VersionRuns, p \in PlanRuns }

(***************************************************************************)
(* SpecCmdAll: `tfskel drift all` runs once and the process ends.          *)
(***************************************************************************)
\* rootCmd.Execute() runs runDriftAll and hands its error to main.
DriftAllCmd ==
    /\ cmdErr = None
    /\ \E inv \in AllInvocations :
          /\ invocation' = <<inv>>
          /\ combined' = runDriftAll(criticalResourceTypes, inv).combined
          /\ cmdErr' = <<runDriftAll(criticalResourceTypes, inv).err>>
    /\ UNCHANGED <<cfg, infos, report, sevCall, cmp, criticalResourceTypes, plan, analysis, fsys, scanned, planFile, parsed, rendered, merged, exitStatus, project, generated>>

NextCmdAll == DriftAllCmd \/ MainExit

SpecCmdAll == InitPlan /\ [][NextCmdAll]_vars

(***************************************************************************)
(* Claim C20                                                               *)
(***************************************************************************)
\* Both analyses of the run were made, or skipped, without an error, no file
\* of the scan had parse errors, and the output was written.
AnalysesCompleted ==
    /\ combined # None
    /\ cmdErr[1].kind # "error"
    /\ LET flags == validateAllFlags(invocation[1].allSkipVersions,
                                     invocation[1].allSkipPlan,
                                     invocation[1].allPlanFile)
       IN /\ flags.skipVersion \/
                /\ runVersionAnalysis(invocation[1].versions).err = NilError
                /\ \A i \in 1..Len(invocation[1].versions.scan[1]) :
                      ~invocation[1].versions.scan[1][i].ParseError
          /\ flags.skipPlan \/ invocation[1].plan.parsed # <<>>

FoundMajorDrift ==
    combined[1].VersionDrift # None /\ combined[1].VersionDrift[1].MajorDrift > 0

FoundVersionDrift ==
    combined[1].VersionDrift # None /\ combined[1].VersionDrift[1].FilesWithDrift > 0

FoundCriticalChanges ==
    /\ combined[1].PlanAnalysis # None
    /\ \/ combined[1].PlanAnalysis[1].Deletions > 0
       \/ combined[1].PlanAnalysis[1].Replacements > 0

FoundPlanChanges ==
    combined[1].PlanAnalysis # None /\ combined[1].PlanAnalysis[1].TotalChanges > 0

\* C20: drift all exits with 2 when the plan has a deletion or replacement
\* or a file has major version drift, otherwise with 1 when there is version
\* drift or a plan change, otherwise with 0.
C20_DriftAllExitsWithMostSevere ==
    exitStatus # None /\ AnalysesCompleted =>
        exitStatus[1] =
            IF FoundCriticalChanges \/ FoundMajorDrift THEN 2
            ELSE IF FoundVersionDrift \/ FoundPlanChanges THEN 1
            ELSE 0

(***************************************************************************)
(* Claim C23 (SpecCompare)                                                 *)
(***************************************************************************)
\* The string has a minor part and it is an integer.
MinorParses(version) ==
    /\ Len(NumberParts(version)) > 1
    /\ Atoi(NumberParts(version)[2]).ok

\* Two different strings were compared whose major and minor numbers parse.
BothParse ==
    /\ cmp # None
    /\ cmp[1].expected # cmp[1].actual
    /\ MajorParses(cmp[1].expected) /\ MajorParses(cmp[1].actual)
    /\ MinorParses(cmp[1].expected) /\ MinorParses(cmp[1].actual)

\* The major number strconv.Atoi reads from the string.
MajorOf(version) == Atoi(NumberParts(version)[1]).val

\* C23 as claimed: for two different strings whose major and minor numbers
\* all parse, both comparisons return major-drift if the majors differ and
\* minor-drift otherwise.
C23_ParsedPairIsMajorOrMinor ==
    BothParse =>
        IF MajorOf(cmp[1].expected) # MajorOf(cmp[1].actual)
        THEN cmp[1].terraform = StatusMajorDrift /\ cmp[1].provider = StatusMajorDrift
        ELSE cmp[1].terraform = StatusMinorDrift /\ cmp[1].provider = StatusMinorDrift

\* C23 amended: the same, except that a major number that reads as -1 counts
\* as not parsed: the result is then major-drift, equal majors or not.
C23_ParsedPairIsMajorOrMinorUnlessMinusOne ==
    BothParse =>
        IF \/ MajorOf(cmp[1].expected) # MajorOf(cmp[1].actual)
           \/ MajorOf(cmp[1].expected) = -1
        THEN cmp[1].terraform = StatusMajorDrift /\ cmp[1].provider = StatusMajorDrift
        ELSE cmp[1].terraform = StatusMinorDrift /\ cmp[1].provider = StatusMinorDrift

\* The same major and minor number under two operator spellings was compared.
C23_Witness ==
    /\ BothParse
    /\ extractVersionNumbers(cmp[1].expected) = extractVersionNumbers(cmp[1].actual)
    /\ MajorOf(cmp[1].expected) = 1
    /\ cmp[1].terraform = StatusMinorDrift
    /\ cmp[1].provider = StatusMinorDrift

(***************************************************************************)
(* Claims about the label, the skipping and the exit code of the plan      *)
(* analysis.                                                               *)
(***************************************************************************)
BothDeleteAndCreate(actions) == {"delete", "create"} \subseteq ActionSet(actions)

Listed(rc) ==
    \E i \in 1..Len(analysis[1].ResourceChanges) :
        analysis[1].ResourceChanges[i].Address = rc.Address

\* TotalChanges and the four groupings count the listed changes and no other.
CountsOnlyListed ==
    LET a == analysis[1] IN
    /\ a.TotalChanges = Len(a.ResourceChanges)
    /\ MapSum(a.ByType) = Len(a.ResourceChanges)
    /\ MapSum(a.ByModule) = Len(a.ResourceChanges)
    /\ MapSum(a.BySeverity) = Len(a.ResourceChanges)
    /\ MapSum(a.ByAction) = Len(a.ResourceChanges)
    /\ CounterSum(a) <= Len(a.ResourceChanges)

\* C25 as claimed: a change is left out of the analysis if and only if it is
\* a data source or its action list is exactly ["no-op"].
C25_LeftOutIffDataOrNoOp ==
    analysis # None =>
        /\ CountsOnlyListed
        /\ \A i \in 1..Len(PlanChanges) :
              LET rc == PlanChanges[i] IN
              ~Listed(rc) <=> (rc.Mode = "data" \/ rc.Change.Actions = <<"no-op">>)

\* C25 amended: a change is left out of the analysis if and only if it is a
\* data source or its action list is empty or exactly ["no-op"]; every other
\* change is processed.
C25_LeftOutIffDataOrNoOpOrEmpty ==
    analysis # None =>
        /\ CountsOnlyListed
        /\ \A i \in 1..Len(PlanChanges) :
              LET rc == PlanChanges[i] IN
              ~Listed(rc) <=> \/ rc.Mode = "data"
                              \/ rc.Change.Actions = <<"no-op">>
                              \/ rc.Change.Actions = <<>>

\* A managed resource without actions is left out, the read beside it is not.
C25_Witness ==
    /\ analysis # None
    /\ Len(PlanChanges) = 2
    /\ PlanChanges[1].Mode = "managed"
    /\ PlanChanges[1].Change.Actions = <<>>
    /\ PlanChanges[2].Change.Actions = <<"read">>
    /\ ~Listed(PlanChanges[1])
    /\ Listed(PlanChanges[2])
    /\ analysis[1].TotalChanges = 1

CriticalCount(a) ==
    IF SeverityCritical \in DOMAIN a.BySeverity THEN a.BySeverity[SeverityCritical] ELSE 0

\* C28: for every analysis Analyze returns, ExitCode() is 2 if and only if a
\* listed resource has severity critical; Deletions + Replacements > 0
\* exactly when the by-severity count of critical is above zero.
C28_ExitCriticalIffCriticalResource ==
    analysis # None =>
        LET a == analysis[1] IN
        /\ PlanExitCode(a) = 2
              <=> \E i \in 1..Len(a.ResourceChanges) :
                      a.ResourceChanges[i].Severity = "critical"
        /\ a.Deletions + a.Replacements > 0 <=> CriticalCount(a) > 0

\* A replacement of a resource that is no critical type, beside an update:
\* one critical resource, exit code 2.
C28_Witness ==
    /\ analysis # None
    /\ Len(analysis[1].ResourceChanges) = 2
    /\ analysis[1].ResourceChanges[1].Actions = <<"update">>
    /\ analysis[1].ResourceChanges[2].Actions = <<"delete", "create">>
    /\ analysis[1].ResourceChanges[2].Type = "aws_instance"
    /\ CriticalCount(analysis[1]) = 1
    /\ PlanExitCode(analysis[1]) = 2

(***************************************************************************)
(* Claims about the record list and the minor bucket of a drift report.    *)
(***************************************************************************)
FilePaths(seq) == [i \in 1..Len(seq) |-> seq[i].FilePath]

\* The input records that carry no parse error, in input order.
ParsedInfos == SelectSeq(infos[1], LAMBDA info : ~info.ParseError)

\* C27 as claimed: Analyze appends a DriftRecord for every input record, so
\* the record list of the report holds exactly one entry per input record.
C27_OneRecordPerInput ==
    report # None => FilePaths(report[1].Records) = FilePaths(infos[1])

\* C27 amended: Analyze appends a DriftRecord for every input record that
\* carries no parse error, so the record list holds, in input order, exactly
\* one entry per input record without a parse error; an input record with a
\* parse error is counted in FilesWithErrors and has no entry.
C27_OneRecordPerParsedInput ==
    report # None =>
        /\ FilePaths(report[1].Records) = FilePaths(ParsedInfos)
        /\ report[1].Summary.FilesWithErrors = Len(infos[1]) - Len(ParsedInfos)

\* Two input records, the first with a parse error: one entry, for the second.
C27_Witness ==
    /\ report # None
    /\ Len(infos[1]) = 2
    /\ infos[1][1].ParseError
    /\ ~infos[1][2].ParseError
    /\ FilePaths(report[1].Records) = <<infos[1][2].FilePath>>
    /\ report[1].Summary.FilesWithErrors = 1

AnyMinor(record) ==
    \/ record.TerraformDriftStatus = StatusMinorDrift
    \/ HasPluginStatus(record, StatusMinorDrift)

\* C29 as claimed: every file counted in FilesWithMinorDrift has a status
\* equal to minor-drift, so a drifting file whose only statuses other than
\* in-sync are missing is not counted as minor drift.
C29_MinorBucketHasMinorStatus ==
    /\ sevCall # None =>
          LET c == sevCall[1] IN
          c.after.FilesWithMinorDrift > c.before.FilesWithMinorDrift => AnyMinor(c.record)
    /\ report # None =>
          report[1].Summary.FilesWithMinorDrift
              = CountOf(report[1].Records,
                        LAMBDA rec : rec.HasDrift /\ ~AnyMajor(rec) /\ AnyMinor(rec))

\* C29 amended: every file counted in FilesWithMinorDrift is a drifting file
\* with no status equal to major-drift; a drifting file whose only statuses
\* other than in-sync are missing is counted as minor drift.
C29_MinorBucketHasNoMajorStatus ==
    /\ sevCall # None =>
          LET c == sevCall[1] IN
          /\ c.after.FilesWithMinorDrift > c.before.FilesWithMinorDrift => ~AnyMajor(c.record)
          /\ ~AnyMajor(c.record) =>
                c.after.FilesWithMinorDrift = c.before.FilesWithMinorDrift + 1
    /\ report # None =>
          report[1].Summary.FilesWithMinorDrift
              = CountOf(report[1].Records, LAMBDA rec : rec.HasDrift /\ ~AnyMajor(rec))

\* A report on one file that declares no core-tool version and whose plugins
\* are in sync or not managed: the file is the one file with minor drift.
C29_Witness ==
    /\ report # None
    /\ Len(report[1].Records) = 1
    /\ report[1].Records[1].TerraformDriftStatus = StatusMissing
    /\ report[1].Records[1].HasDrift
    /\ ~AnyMinor(report[1].Records[1])
    /\ ~HasPluginStatus(report[1].Records[1], StatusMissing)
    /\ report[1].Summary.FilesWithMinorDrift = 1

\* The document starts with the byte-order mark.
HasBOM(bytes) == Len(bytes) >= 3 /\ SubSeq(bytes, 1, 3) = ByteOrderMark

\* C30: a plan document that is a byte-order mark followed by a valid plan
\* JSON object with a format_version (a document ParsePlanFile accepts when
\* the mark is taken away) is accepted by ParsePlanFile, with the same plan.
C30_ByteOrderMarkIsSkippedForDecoding ==
    RegularPlanFile
        /\ HasBOM(planFile[1].bytes)
        /\ WholeValue(AfterBOM(planFile[1].bytes))
        /\ ParsePlanFile(PlanFile("regular", AfterBOM(planFile[1].bytes))).err = ""
    => /\ parsed[1].err = ""
       /\ parsed[1] = ParsePlanFile(PlanFile("regular", AfterBOM(planFile[1].bytes)))

(***************************************************************************)
(* Claim about the errors of a scan (SpecScan).                            *)
(***************************************************************************)
\* The .tf files the walk reaches and does not pass over for the versions.tf
\* rule: under no dotted directory, and versions.tf or the only .tf file of
\* their directory.
VisitedTfFiles ==
    { f \in FilesUnder(fsys[1]) :
        /\ \A n \in DirNamesOf(f.path) : ~IsHidden(n)
        /\ IsTf(f.file.name)
        /\ \/ f.file.name = VersionsTf
           \/ \A g \in FilesUnder(fsys[1]) :
                 Dir(g.path) = Dir(f.path) /\ IsTf(g.file.name) => g = f }

TraversalError == \E d \in VisibleDirs : ~d.dir.readable

FailsToParse(content) == ~content.readable \/ content.hasErrors

RecordedWithError(path) ==
    \E i \in 1..Len(scanned[1].results) :
        scanned[1].results[i].FilePath = path /\ scanned[1].results[i].ParseError

\* C26: a traversal error (a directory that cannot be read) aborts the scan
\* with an error; a failure on a single file never does: without a traversal
\* error the scan returns no error, every file that fails to parse (it cannot
\* be read, or the parser reports errors) is recorded with its error, and the
\* other files are still visited, so every versions.tf that parses and
\* declares constraints is recorded.
C26_FileFailureIsRecordedWalkGoesOn ==
    scanned # None =>
        /\ TraversalError => scanned[1].err
        /\ ~TraversalError =>
              /\ ~scanned[1].err
              /\ \A f \in VisitedTfFiles :
                    FailsToParse(f.file.content) => RecordedWithError(f.path)
              /\ \A f \in VisitedTfFiles :
                    /\ f.file.name = VersionsTf
                    /\ ~FailsToParse(f.file.content)
                    /\ DeclaresVersions(f.file.content)
                    => f.path \in ScannedPaths

(***************************************************************************)
(* version_formatter.go: Formatter.Format and what it does to the report   *)
(* it is handed by pointer.  A slice the formatter builds is a value of    *)
(* its own; a function that is handed report.Records returns, beside its   *)
(* result, the records it leaves in the report.  Of the table only the     *)
(* drift details work on the records; the header, the summary and the two  *)
(* version tables read counters and maps of the report and sort key lists  *)
(* of their own.  The paths of the model are shorter than the 100          *)
(* characters from which buildDriftData truncates.                         *)
(***************************************************************************)
\* Mutant: the drifting records are collected in place, records[:0], over
\* the slice of the report.
filterDriftRecords_InPlace(records) ==
    [driftRecords |-> SelectSeq(records, LAMBDA record : record.HasDrift),
     records |-> SelectSeq(records, LAMBDA record : record.HasDrift)
                 \o SubSeq(records,
                           Len(SelectSeq(records, LAMBDA record : record.HasDrift)) + 1,
                           Len(records))]

\* filterDriftRecords: a new slice of the records with drift.
filterDriftRecords(records) ==
    [driftRecords |-> SelectSeq(records, LAMBDA record : record.HasDrift),
     records |-> records]

\* sort.Slice(driftRecords, ... FilePath < ...); the paths are all different.
RECURSIVE sortByFilePath(_)
sortByFilePath(driftRecords) ==
    IF driftRecords = <<>> THEN <<>>
    ELSE LET first == CHOOSE i \in 1..Len(driftRecords) :
                          \A j \in 1..Len(driftRecords) :
                              j # i => PathLess(driftRecords[i].FilePath,
                                                driftRecords[j].FilePath)
         IN <<driftRecords[first]>>
            \o sortByFilePath([k \in 1..(Len(driftRecords) - 1) |->
                                  IF k < first THEN driftRecords[k]
                                  ELSE driftRecords[k + 1]])

\* Formatter.formatStatus
formatStatus(status) ==
    CASE status = StatusInSync -> "OK"
      [] status = StatusMinorDrift -> "minor drift"
      [] status = StatusMajorDrift -> "major drift"
      [] status = StatusMissing -> "missing"
      [] status = StatusNotManaged -> "not managed"
      [] OTHER -> status

\* buildDriftData, the rows of one record: the core-tool row when its status
\* is not in-sync, then a row per plugin that is neither in sync nor
\* unmanaged.
driftRows(record) ==
    (IF record.TerraformDriftStatus # StatusInSync
     THEN << <<Plain(record.FilePath), "Terraform", Plain(record.TerraformExpected),
               record.TerraformActual, formatStatus(record.TerraformDriftStatus)>> >>
     ELSE <<>>)
    \o [i \in 1..Len(SelectSeq(record.Providers,
                               LAMBDA pd : pd.DriftStatus \notin {StatusInSync, StatusNotManaged})) |->
          LET pd == SelectSeq(record.Providers,
                              LAMBDA p : p.DriftStatus \notin {StatusInSync, StatusNotManaged})[i]
          IN << IF record.TerraformDriftStatus # StatusInSync
                THEN Render("muted", <<"  -> ", record.FilePath>>)
                ELSE Plain(record.FilePath),
                <<"Provider: ", pd.Name>>,
                IF pd.Expected = <<>> THEN Render("muted", "(not configured)")
                ELSE Plain(pd.Expected),
                pd.Actual,
                formatStatus(pd.DriftStatus) >>]

RECURSIVE buildDriftData(_, _)
buildDriftData(records, i) ==
    IF i > Len(records) THEN <<>>
    ELSE driftRows(records[i]) \o buildDriftData(records, i + 1)

\* writeDriftDetails: the rows of the drift table, sorted by file path, and
\* the report as the function leaves it.
writeDriftDetails(rep) ==
    [rows |-> buildDriftData(sortByFilePath(filterDriftRecords(rep.Records).driftRecords), 1),
     report |-> [rep EXCEPT !.Records = filterDriftRecords(rep.Records).records]]

\* Formatter.formatTable
driftFormatTable(rep) == writeDriftDetails(rep)

\* Formatter.formatJSON: the encoder is handed the report and writes it.
driftFormatJSON(rep) == [rows |-> <<rep>>, report |-> rep]

\* Formatter.Format: what is written, and the report after the call.
Format(rep, format) ==
    CASE format = FormatTable -> driftFormatTable(rep)
      [] format = FormatJSON -> driftFormatJSON(rep)
      [] format = FormatCSV -> [rows |-> driftFormatCSV(rep), report |-> rep]

(***************************************************************************)
(* SpecFormat: the files of a scan are analyzed and the report is          *)
(* formatted once, in any of the three formats.  rendered keeps the report *)
(* the call was handed, report is the report after the call.               *)
(***************************************************************************)
\* formatter.Format(report, format, w)
FormatCall ==
    /\ report # None
    /\ rendered = None
    /\ \E format \in {FormatTable, FormatJSON, FormatCSV} :
          /\ rendered' = <<[format |-> format,
                            rows |-> Format(report[1], format).rows,
                            report |-> report[1]]>>
          /\ report' = <<Format(report[1], format).report>>
    /\ UNCHANGED <<cfg, infos, sevCall, cmp, criticalResourceTypes, plan, analysis, fsys, scanned, planFile, parsed, merged, cmdErr, exitStatus, combined, invocation, project, generated>>

NextFormat == AnalyzeCall \/ FormatCall

SpecFormat == InitDrift /\ [][NextFormat]_vars

categoryGithub == "github"

\* MemoryFileSystem.MkdirAll
MkdirAll(filesystem, path) == [filesystem EXCEPT !.dirs = @ \cup {path}]

\* MemoryFileSystem.WriteFile
WriteFile(filesystem, path, data) ==
    [filesystem EXCEPT !.files =
        [p \in DOMAIN filesystem.files \cup {path} |->
            IF p = path THEN data ELSE filesystem.files[p]]]

\* MemoryFileSystem.FileExists
FileExists(filesystem, path) == path \in DOMAIN filesystem.files

\* extractMetadata: <<>> for an error, <<map>> otherwise.
extractMetadata(content, metadataKey) ==
    IF metadataKey = "metadata" THEN content.metadata ELSE content.tags

buildBackendMetadata(bucketName) == [key \in {"bucket"} |-> bucketName]

buildVersionsMetadata(tfVersion, awsProviderVersion) ==
    [key \in {"tf_ver", "aws_provider_ver"} |->
        IF key = "tf_ver" THEN tfVersion ELSE awsProviderVersion]

\* compareMetadata, its first result: a key was added, changed or removed.
compareMetadata(fileMetadata, configMetadata) ==
    \/ \E key \in DOMAIN configMetadata :
          key \notin DOMAIN fileMetadata \/ fileMetadata[key] # configMetadata[key]
    \/ \E key \in DOMAIN fileMetadata : key \notin DOMAIN configMetadata

\* Generator.prepareTemplateData, for a bucket name without template syntax.
prepareTemplateData(config, env, region, appDir) ==
    [Env |-> env,
     Region |-> region,
     AppDir |-> appDir,
     ShortRegion |-> IF region = "eu-central-1" THEN "euc1" ELSE region,
     S3BucketName |-> IF config.BucketName # "" THEN config.BucketName
                      ELSE "CHANGE_ME_WITH_YOUR_GLOBALLY_UNIQUE_S3_BUCKET_NAME",
     TerraformVersion |-> config.TerraformVersion,
     AWSProviderVersion |-> "~> 6.0",
     DefaultTags |-> config.DefaultTags]

\* Renderer.Render on the templates of the generator: backend.tf and
\* versions.tf are written with the metadata lines the generator reads back.
renderTemplate(templateName, data) ==
    IF templateName = <<"tf", "backend.tf">>
    THEN [text |-> <<templateName, data.S3BucketName>>,
          metadata |-> <<buildBackendMetadata(data.S3BucketName)>>,
          tags |-> <<>>]
    ELSE IF templateName = <<"tf", "versions.tf">>
    THEN [text |-> <<templateName, data.TerraformVersion, data.AWSProviderVersion>>,
          metadata |-> <<buildVersionsMetadata(data.TerraformVersion,
                                               data.AWSProviderVersion)>>,
          tags |-> <<data.DefaultTags>>]
    ELSE [text |-> <<templateName, data.Env, data.Region, data.AppDir>>,
          metadata |-> <<>>,
          tags |-> <<>>]

\* Generator.generateDefaultWorkflowFileName (no name_template is configured)
generateDefaultWorkflowFileName(originalFileName, data) ==
    <<data.AppDir, "-", data.Env, "-", data.ShortRegion, "-", originalFileName>>

\* Generator.determineOutputPath: <<>> for a path that is not valid,
\* <<outputPath>> otherwise.
determineOutputPath(tmplPath, appPath, data) ==
    IF Len(tmplPath) < 2 THEN <<>>
    ELSE IF tmplPath[1] = "root" THEN << <<tmplPath[Len(tmplPath)]>> >>
    ELSE IF tmplPath[1] = "tf" THEN <<Append(appPath, tmplPath[Len(tmplPath)])>>
    ELSE IF tmplPath[1] = categoryGithub
    THEN << <<".github", "workflows",
              generateDefaultWorkflowFileName(tmplPath[Len(tmplPath)], data)>> >>
    ELSE <<>>

\* Mutant: a template is rendered and written whether its file exists or not.
processTemplate_NoExistsCheck(filesystem, config, tmplPath, appPath, data) ==
    IF tmplPath[1] = "root" THEN filesystem
    ELSE IF tmplPath[1] = categoryGithub /\ ~config.GithubWorkflows THEN filesystem
    ELSE IF determineOutputPath(tmplPath, appPath, data) = <<>> THEN filesystem
    ELSE WriteFile(MkdirAll(filesystem, Dir(determineOutputPath(tmplPath, appPath, data)[1])),
                   determineOutputPath(tmplPath, appPath, data)[1],
                   renderTemplate(tmplPath, data))

\* Generator.processTemplate
processTemplate(filesystem, config, tmplPath, appPath, data) ==
    IF tmplPath[1] = "root" THEN filesystem
    ELSE IF tmplPath[1] = categoryGithub /\ ~config.GithubWorkflows THEN filesystem
    ELSE IF determineOutputPath(tmplPath, appPath, data) = <<>> THEN filesystem
    ELSE IF FileExists(filesystem, determineOutputPath(tmplPath, appPath, data)[1])
    THEN filesystem
    ELSE WriteFile(MkdirAll(filesystem, Dir(determineOutputPath(tmplPath, appPath, data)[1])),
                   determineOutputPath(tmplPath, appPath, data)[1],
                   renderTemplate(tmplPath, data))

\* Renderer.GetTemplateNames: the embedded templates, a custom readme, and
\* two templates whose path names no category of the generator.
GetTemplateNames ==
    << <<"root", ".gitignore">>, <<"tf", "backend.tf">>, <<"tf", "versions.tf">>,
       <<"tf", "readme.md">>, <<"github", "lint.yaml">>, <<"docs", "notes.md">>,
       <<"orphan.tf">> >>

\* Generator.processTemplates, from template i on.
RECURSIVE processTemplates(_, _, _, _, _)
processTemplates(filesystem, config, appPath, data, i) ==
    IF i > Len(GetTemplateNames) THEN filesystem
    ELSE processTemplates(
             processTemplate(filesystem, config, GetTemplateNames[i], appPath, data),
             config, appPath, data, i + 1)

\* Generator.shouldUpdateBackend
shouldUpdateBackend(content, expectedBucketName) ==
    IF extractMetadata(content, "metadata") = <<>> THEN TRUE
    ELSE compareMetadata(extractMetadata(content, "metadata")[1],
                         buildBackendMetadata(expectedBucketName))

\* Generator.shouldUpdateVersions
shouldUpdateVersions(content, data) ==
    IF extractMetadata(content, "metadata") = <<>> THEN TRUE
    ELSE \/ compareMetadata(extractMetadata(content, "metadata")[1],
                            buildVersionsMetadata(data.TerraformVersion,
                                                  data.AWSProviderVersion))
         \/ IF extractMetadata(content, "tags") = <<>>
            THEN DOMAIN data.DefaultTags # {}
            ELSE compareMetadata(extractMetadata(content, "tags")[1], data.DefaultTags)

\* Generator.updateBackendIfNeeded, with updateBackendFile
updateBackendIfNeeded(filesystem, appPath, data) ==
    IF ~FileExists(filesystem, Append(appPath, "backend.tf")) THEN filesystem
    ELSE IF shouldUpdateBackend(filesystem.files[Append(appPath, "backend.tf")],
                                data.S3BucketName)
    THEN WriteFile(filesystem, Append(appPath, "backend.tf"),
                   renderTemplate(<<"tf", "backend.tf">>, data))
    ELSE filesystem

\* Generator.updateVersionsIfNeeded, with updateVersionsFile
updateVersionsIfNeeded(filesystem, appPath, data) ==
    IF ~FileExists(filesystem, Append(appPath, "versions.tf")) THEN filesystem
    ELSE IF shouldUpdateVersions(filesystem.files[Append(appPath, "versions.tf")], data)
    THEN WriteFile(filesystem, Append(appPath, "versions.tf"),
                   renderTemplate(<<"tf", "versions.tf">>, data))
    ELSE filesystem

\* Generator.generateFiles
generateFiles(filesystem, config, appPath, env, region, appDir) ==
    processTemplates(
        updateVersionsIfNeeded(
            updateBackendIfNeeded(filesystem, appPath,
                                  prepareTemplateData(config, env, region, appDir)),
            appPath, prepareTemplateData(config, env, region, appDir)),
        config, appPath, prepareTemplateData(config, env, region, appDir), 1)

\* Generator.Run: the file system it leaves.
Run(filesystem, config, env, region, appDir) ==
    generateFiles(MkdirAll(filesystem, <<"envs", env, region, appDir>>), config,
                  <<"envs", env, region, appDir>>, env, region, appDir)

(***************************************************************************)
(* SpecGenerate: `tfskel generate` is run on one application directory up  *)
(* to MaxRuns times; the configuration may be edited between the runs.     *)
(***************************************************************************)
MaxRuns == 2

NoTags == [key \in {} |-> ""]

\* The configuration: bucket name, core-tool version, default tags, and
\* whether workflows are generated.
GeneratorConfigs ==
    { [BucketName |-> b, TerraformVersion |-> v, DefaultTags |-> t, GithubWorkflows |-> w] :
        b \in {"", "state-bucket"},
        v \in {"~> 1.12", "~> 1.13"},
        t \in {NoTags, [key \in {"managed_by"} |-> "terraform"]},
        w \in BOOLEAN }

TheAppPath == <<"envs", "dev", "eu-central-1", "app">>

\* A file somebody wrote by hand: no comment line of the generator.
UserFile(text) == [text |-> <<"user", text>>, metadata |-> <<>>, tags |-> <<>>]

\* The project before the first run: nothing, or files written by hand.
InitialProjects ==
    { [files |-> [p \in paths |-> UserFile(p)], dirs |-> {Dir(p) : p \in paths}] :
        paths \in SUBSET { Append(TheAppPath, "backend.tf"),
                           Append(TheAppPath, "readme.md"),
                           <<".gitignore">> } }

InitGenerate ==
    /\ cfg = None
    /\ infos = None
    /\ report = None
    /\ sevCall = None
    /\ cmp = None
    /\ criticalResourceTypes = <<>>
    /\ plan = None
    /\ analysis = None
    /\ fsys = None
    /\ scanned = None
    /\ planFile = None
    /\ parsed = None
    /\ rendered = None
    /\ merged = None
    /\ cmdErr = None
    /\ exitStatus = None
    /\ combined = None
    /\ invocation = None
    /\ project \in {<<p>> : p \in InitialProjects}
    /\ generated = None

RunsSoFar == IF generated = None THEN 0 ELSE generated[1].run

\* generator := NewGenerator(cfg, fs, log); generator.Run(env, region, appDir)
GenerateCall ==
    /\ RunsSoFar < MaxRuns
    /\ \E config \in GeneratorConfigs :
          /\ project' = <<Run(project[1], config, "dev", "eu-central-1", "app")>>
          /\ generated' = <<[run |-> RunsSoFar + 1, config |-> config,
                             before |-> project[1]]>>
    /\ UNCHANGED <<cfg, infos, report, sevCall, cmp, criticalResourceTypes, plan, analysis, fsys, scanned, planFile, parsed, rendered, merged, cmdErr, exitStatus, combined, invocation>>

NextGenerate == GenerateCall

SpecGenerate == InitGenerate /\ [][NextGenerate]_vars

(***************************************************************************)
(* Claim C21                                                               *)
(***************************************************************************)
FilesBefore == generated[1].before.files

FilesNow == project[1].files

BackendPath == Append(TheAppPath, "backend.tf")

VersionsPath == Append(TheAppPath, "versions.tf")

\* The metadata the last run's configuration asks for.
ExpectedBucket ==
    IF generated[1].config.BucketName = ""
    THEN "CHANGE_ME_WITH_YOUR_GLOBALLY_UNIQUE_S3_BUCKET_NAME"
    ELSE generated[1].config.BucketName

BackendIsStale(content) ==
    content.metadata = <<>> \/ content.metadata[1] # [key \in {"bucket"} |-> ExpectedBucket]

VersionsIsStale(content) ==
    \/ content.metadata = <<>>
    \/ content.metadata[1]
          # [key \in {"tf_ver", "aws_provider_ver"} |->
                IF key = "tf_ver" THEN generated[1].config.TerraformVersion ELSE "~> 6.0"]
    \/ content.tags = <<>> /\ generated[1].config.DefaultTags # NoTags
    \/ content.tags # <<>> /\ content.tags[1] # generated[1].config.DefaultTags

====
